---- MODULE Spec2Model ----
(***************************************************************************)
(* Model of the MusicBot playback queue (musicbot/playlist.py): the        *)
(* ordered backlog, the round-robin reordering, the add paths, and the     *)
(* pop / prefetch / failure-recovery protocol of get_next_entry.           *)
(*                                                                         *)
(* Entries are identified by the integers 1..MaxEntries in creation order. *)
(* 0 stands for Python's None (no entry, no author).                       *)
(***************************************************************************)
EXTENDS Integers, Sequences, FiniteSets, TLC

\* ---------------------------------------------------------------- bounds
MaxEntries == 3          \* entries ever created in one behaviour
MaxLoaded == 2           \* entries a deserialized playlist starts with
NumAuthors == 2          \* distinct requesters
NumRRAuthors == 3        \* distinct requesters when the reorder loop is run alone
MaxRRLen == 4            \* queue length the reorder loop is run on alone
MaxAdds == 1             \* adds offered to a loaded queue when every add path is tried
MaxInterleaved == 2      \* operations run while one get_next_entry call is suspended

None == 0
Authors == 1..NumAuthors
AuthorsOrNone == 0..NumAuthors
Ids == 1..MaxEntries

VARIABLES
    entries,             \* Playlist.entries: the deque, head first
    meta,                \* entry -> entry.meta.get("author", None)
    dead,                \* entries rebuilt without a live handle
    next_id,             \* ghost: identity of the next entry to be created
    round_robin_queue,   \* bot.config.round_robin_queue
    requested,           \* entries whose get_ready_future() returned a future
    emitted,             \* emit() calls made by the operation in progress / last run
    pc,                  \* get_next_entry: "idle", "await" (suspended), "done"
    cur,                 \* entry popped by get_next_entry and being awaited
    result,              \* value returned by the last get_next_entry call
    call,                \* ghost: what the running/last get_next_entry call started from
    op,                  \* ghost: the last add operation and what it returned
    hist,                \* ghost: summary of the behaviour so far
    rr,                  \* locals of a reorder_for_round_robin call run step by step
    duration,            \* entry -> entry.duration in seconds (Unknown for None)
    bg,                  \* a second get_next_entry call running beside the first
    em                   \* EventEmitter: _events, the loop's pending tasks, ghost logs

vars == <<entries, meta, dead, next_id, round_robin_queue, requested, emitted,
          pc, cur, result, call, op, hist, rr, duration, bg, em>>

\* ---------------------------------------------------------------- helpers
Range(s) == {s[i] : i \in 1..Len(s)}

\* index of x in s (0 when absent)
IndexOf(s, x) == IF x \in Range(s) THEN CHOOSE i \in 1..Len(s) : s[i] = x ELSE 0

\* s without its i-th element
RemoveAt(s, i) == SubSeq(s, 1, i - 1) \o SubSeq(s, i + 1, Len(s))

\* the subsequence of s made of the elements that are in keep
RECURSIVE FilterSeq(_, _)
FilterSeq(s, keep) ==
    IF s = <<>> THEN <<>>
    ELSE IF Head(s) \in keep THEN <<Head(s)>> \o FilterSeq(Tail(s), keep)
         ELSE FilterSeq(Tail(s), keep)

\* ---------------------------------------------------------------- events
EntryAdded(e, defer) ==
    [name |-> "entry-added", entry |-> e, defer |-> defer, error |-> "none"]
EntryFailed(e, err) ==
    [name |-> "entry-failed", entry |-> e, defer |-> FALSE, error |-> err]

\* EventEmitter.emit as seen by the playlist: the call is recorded
Emit(log, ev) == Append(log, ev)

\* ------------------------------------------------------------ EventEmitter
MaxRegistered == 2
MaxScheduled == 1

EventNames == {"entry-added", "entry-failed"}

\* the callbacks a subscriber hands to on(): a plain function, a plain
\* function whose body raises an Exception, a coroutine function, and the
\* wrapper that once() builds around a plain function (lines 43-45)
HandlerKinds == <<"sync", "raises", "async", "once">>
Handlers == 1..Len(HandlerKinds)

\* plain functions that call back into the emitter while an emit is looping:
\* one emits the same event again (unless it is already inside its own emit),
\* one registers the plain handler with on(), one takes it out with off()
ListenerKinds == <<"emits", "subscribes", "unsubscribes">>
Listeners == (Len(HandlerKinds) + 1)..(Len(HandlerKinds) + Len(ListenerKinds))

HandlerKind(cb) ==
    IF cb \in Handlers THEN HandlerKinds[cb]
    ELSE ListenerKinds[cb - Len(HandlerKinds)]

PlainHandler == CHOOSE cb \in Handlers : HandlerKinds[cb] = "sync"
OnceWrapper  == CHOOSE cb \in Handlers : HandlerKinds[cb] = "once"

iscoroutinefunction(cb) == HandlerKind(cb) = "async"

\* lines 12-14: no event has a handler list; nothing is pending on the loop
NoEmitCall == [event |-> "none", entry |-> None, registered |-> <<>>,
               present |-> FALSE]
NoEmitter ==
    [events |-> [n \in EventNames |-> <<>>], keys |-> {}, scheduled |-> <<>>,
     trace |-> <<>>, ran |-> <<>>, printed |-> 0, raised |-> "none",
     last |-> NoEmitCall, depth |-> 0, calls |-> 0, onces |-> 0,
     once_runs |-> 0]

\* the keyword arguments of an emit made by the playlist: playlist=self, as
\* a handler finds it when it is called, and the entry
Payload(entry, q, req) == [entry |-> entry, entries |-> q, requested |-> req]

\* lines 30-32
on(st, event, cb) ==
    [st EXCEPT !.events[event] = Append(@, cb), !.keys = @ \cup {event}]

off_last(st, event, cb) ==
    IF cb \notin Range(st.events[event])
    THEN [st EXCEPT !.keys = @ \cup {event}, !.raised = "ValueError"]
    ELSE LET regs == st.events[event]
             last == CHOOSE i \in 1..Len(regs) :
                        regs[i] = cb /\ \A j \in (i + 1)..Len(regs) : regs[j] # cb
             rest == RemoveAt(regs, last)
         IN  [st EXCEPT !.events[event] = rest,
                        !.keys = IF rest = <<>> THEN @ \ {event} ELSE @]

\* lines 34-40: list.remove takes out the first occurrence and raises
\* ValueError when there is none (the defaultdict has made the key by then)
off(st, event, cb) ==
    IF cb \notin Range(st.events[event])
    THEN [st EXCEPT !.keys = @ \cup {event}, !.raised = "ValueError"]
    ELSE LET rest == RemoveAt(st.events[event], IndexOf(st.events[event], cb))
         IN  [st EXCEPT !.events[event] = rest,
                        !.keys = IF rest = <<>> THEN @ \ {event} ELSE @]

\* lines 42-47: once() registers a wrapper around the handler
once(st, event) == on(st, event, OnceWrapper)

OnceBodyCallsFirst(st, cb, event) ==
    [off(st, event, cb) EXCEPT !.ran = Append(@, cb)]

\* lines 43-45: the wrapper takes itself out with off() and then calls the
\* handler; when off() raises the handler is not reached
OnceBody(st, cb, event) ==
    IF off(st, event, cb).raised # "none" THEN off(st, event, cb)
    ELSE [off(st, event, cb) EXCEPT !.ran = Append(@, cb)]

RECURSIVE emit(_, _, _)

\* what the body of a callback does when it runs
Body(st, cb, event) ==
    LET run == [st EXCEPT !.ran = Append(@, cb)]
    IN  CASE HandlerKind(cb) = "raises" -> [run EXCEPT !.raised = "Exception"]
          [] HandlerKind(cb) = "once"   -> OnceBody(st, cb, event)
          [] HandlerKind(cb) = "emits"  ->
                IF st.depth # 0 THEN run
                ELSE [emit([run EXCEPT !.depth = 1], event,
                           Payload(None, <<>>, {})) EXCEPT !.depth = 0]
          [] HandlerKind(cb) = "subscribes"   -> on(run, event, PlainHandler)
          [] HandlerKind(cb) = "unsubscribes" -> off(run, event, PlainHandler)
          [] OTHER                      -> run

Uncaught(st) == st

\* lines 27-28: the traceback is printed and the loop goes on
Caught(st) == [st EXCEPT !.printed = @ + 1, !.raised = "none"]

ScheduleAndRun(st, cb, event, payload) == Body(st, cb, event)

\* line 23: ensure_future hands the coroutine to the loop
Schedule(st, cb, event, payload) ==
    [st EXCEPT !.scheduled =
        Append(@, [cb |-> cb, event |-> event, entry |-> payload.entry])]

\* lines 21-28, one turn of the loop over the handlers
Dispatch(st, cb, event, payload) ==
    LET called == [st EXCEPT !.trace =
                      Append(@, [cb |-> cb, event |-> event, payload |-> payload])]
        done   == IF iscoroutinefunction(cb)
                  THEN Schedule(called, cb, event, payload)
                  ELSE Body(called, cb, event)
    IN  IF done.raised # "none" THEN Caught(done) ELSE done

RemainingRegistered(st, cbs, event) ==
    SelectSeq(Tail(cbs), LAMBDA cb : cb \in Range(st.events[event]))

\* line 20: the loop runs over a copy of the list, so the callbacks still to
\* be called do not depend on what a handler did to the registrations
Remaining(st, cbs, event) == Tail(cbs)

RECURSIVE EmitEach(_, _, _, _)
EmitEach(st, cbs, event, payload) ==
    IF cbs = <<>> \/ st.raised # "none" THEN st
    ELSE CHOOSE r \in
           { EmitEach(done, Remaining(done, cbs, event), event, payload) :
               done \in {Dispatch(st, Head(cbs), event, payload)} } : TRUE

SnapshotOfAll(st, event) ==
    st.events["entry-added"] \o st.events["entry-failed"]

\* line 20: list(self._events[event])
Snapshot(st, event) == st.events[event]

\* lines 16-28
emit(st, event, payload) ==
    IF event \notin st.keys THEN st
    ELSE EmitEach(st, Snapshot(st, event), event, payload)

\* the ghost logs start afresh with every call on the emitter
Fresh(st) ==
    [st EXCEPT !.trace = <<>>, !.ran = <<>>, !.printed = 0, !.raised = "none",
               !.last = NoEmitCall]
Calling(st, event, entry) ==
    [Fresh(st) EXCEPT !.last = [event |-> event, entry |-> entry,
                                registered |-> st.events[event],
                                present |-> event \in st.keys]]

\* ---------------------------------------------------------------- peek
peek(q) == IF q # <<>> THEN q[1] ELSE None

\* ------------------------------------------- get_next_song_from_author
get_next_song_from_author_last(q, m, author) ==
    LET hits == {i \in 1..Len(q) : m[q[i]] = author}
    IN  IF hits = {} THEN None
        ELSE q[CHOOSE i \in hits : \A j \in hits : j <= i]

get_next_song_from_author(q, m, author) ==
    LET hits == {i \in 1..Len(q) : m[q[i]] = author}
    IN  IF hits = {} THEN None
        ELSE q[CHOOSE i \in hits : \A j \in hits : i <= j]

\* ------------------------------------------------ reorder_for_round_robin
\* lines 276-281: distinct truthy authors in order of first appearance
RECURSIVE CollectAuthors(_, _, _)
CollectAuthors(q, m, acc) ==
    IF q = <<>> THEN acc
    ELSE LET author == m[Head(q)]
         IN  IF author # None /\ author \notin Range(acc)
             THEN CollectAuthors(Tail(q), m, Append(acc, author))
             ELSE CollectAuthors(Tail(q), m, acc)

\* locals on entry to the while loop (lines 275-284)
RRBegin(q, m) ==
    [status |-> "loop", entries |-> q, new_queue |-> <<>>,
     all_authors |-> CollectAuthors(q, m, <<>>), request_counter |-> 0,
     moved |-> 0, dropped |-> 0]

\* line 292-293: all_authors.pop(request_counter); continue -- the counter
\* is left where it is, so the same index names the following author
PopAdvancesPointer(rc) == rc + 1

AfterAuthorPop(rc) == rc

\* line 297: request_counter += 1 after an entry was moved
StaysAfterMove(rc) == rc

AfterMove(rc) == rc + 1

\* one evaluation of the while condition and, if true, one loop body (285-299)
RRIterate(st, m) ==
    IF st.entries = <<>>
    THEN [st EXCEPT !.status = "done", !.entries = st.new_queue]
    ELSE LET rc == IF st.request_counter = Len(st.all_authors)
                   THEN 0 ELSE st.request_counter
         IN  IF rc >= Len(st.all_authors)
             THEN [st EXCEPT !.status = "IndexError", !.request_counter = rc]
             ELSE LET song == get_next_song_from_author(st.entries, m,
                                                        st.all_authors[rc + 1])
                  IN  IF song = None
                      THEN [st EXCEPT !.all_authors = RemoveAt(st.all_authors, rc + 1),
                                      !.request_counter = AfterAuthorPop(rc),
                                      !.dropped = st.dropped + 1]
                      ELSE [st EXCEPT !.new_queue = Append(st.new_queue, song),
                                      !.entries = RemoveAt(st.entries,
                                                           IndexOf(st.entries, song)),
                                      !.request_counter = AfterMove(rc),
                                      !.moved = st.moved + 1]

RECURSIVE RRLoop(_, _)
RRLoop(st, m) == IF st.status # "loop" THEN st ELSE RRLoop(RRIterate(st, m), m)

\* the whole call: the queue it leaves and whether it raised
reorder_for_round_robin(q, m) == RRLoop(RRBegin(q, m), m)

\* ---------------------------------------------------------------- _add_entry
\* lines 301-317.  Returns the queue, the emit log, the requested set and the
\* exception that escaped ("none" when the call returned).
InsertTailAlways(q, entry, head) == Append(q, entry)
InsertHeadAlways(q, entry, head) == <<entry>> \o q

InsertEntry(q, entry, head) ==
    IF head THEN <<entry>> \o q ELSE Append(q, entry)

EmitAdded(log, entry, defer_serialize) ==
    Emit(log, EntryAdded(entry, defer_serialize))

RequestAlways(q, req, entry) == req \cup {entry}

\* lines 316-317: the future is asked for only when the entry is the head
RequestIfHead(q, req, entry) ==
    IF peek(q) = entry THEN req \cup {entry} ELSE req

add_entry(q, m, rrq, req, log, entry, head, defer_serialize) ==
    LET q1 == InsertEntry(q, entry, head)
        r  == IF rrq THEN reorder_for_round_robin(q1, m)
              ELSE [status |-> "done", entries |-> q1]
    IN  IF r.status = "IndexError"
        THEN [entries |-> r.entries, emitted |-> log, requested |-> req,
              raised |-> "IndexError"]
        ELSE [entries |-> r.entries,
              emitted |-> EmitAdded(log, entry, defer_serialize),
              requested |-> RequestIfHead(r.entries, req, entry),
              raised |-> "none"]

AtEmitAfterRequest(q, req, entry) ==
    Payload(entry, q, RequestIfHead(q, req, entry))

\* the playlist a handler of entry-added is handed at lines 312-314
AtEmit(q, req, entry) == Payload(entry, q, req)

\* lines 301-317 with the handlers of the emitter: an exception that left
\* emit would leave _add_entry before line 316
add_entry_subscribed(q, m, rrq, req, st, entry, head, defer_serialize) ==
    LET q1 == InsertEntry(q, entry, head)
        r  == IF rrq THEN reorder_for_round_robin(q1, m)
              ELSE [status |-> "done", entries |-> q1]
        e  == emit(st, "entry-added", AtEmit(r.entries, req, entry))
    IN  IF r.status = "IndexError"
        THEN [entries |-> r.entries, em |-> st, requested |-> req,
              raised |-> "IndexError"]
        ELSE IF e.raised # "none"
        THEN [entries |-> r.entries, em |-> e, requested |-> req,
              raised |-> e.raised]
        ELSE [entries |-> r.entries, em |-> e,
              requested |-> RequestIfHead(r.entries, req, entry),
              raised |-> "none"]

\* ------------------------------------------------------ add_stream_from_info
\* lines 88-110: builds a stream entry, adds it, returns (entry, len(entries))
add_stream_from_info(q, m, rrq, req, log, entry, head, defer_serialize) ==
    LET a == add_entry(q, m, rrq, req, log, entry, head, defer_serialize)
    IN  [entries |-> a.entries, emitted |-> a.emitted, requested |-> a.requested,
         raised |-> a.raised, entry |-> entry, kind |-> "stream",
         position |-> Len(a.entries)]

\* ------------------------------------------------------- add_entry_from_info
\* what the checks of lines 131-173 decide for an extraction result
Extractors == {"generic", "Dropbox", "youtube"}
ContentTypes == {"none", "application/zip", "application/ogg", "image/png",
                 "text/html", "text/plain", "audio/mpeg"}
Infos ==
    [empty : BOOLEAN, ytdl_type : {"video", "playlist"}, is_stream : BOOLEAN,
     extractor : Extractors, content_type : ContentTypes]

RejectedNever(ct) == FALSE

Rejected(ct) == ct \in {"application/zip", "image/png"}

InfoPath(info) ==
    IF info.empty THEN "ExtractionError"
    ELSE IF info.ytdl_type = "playlist" THEN "WrongEntryTypeError"
    ELSE IF info.is_stream THEN "stream"
    ELSE IF info.extractor \in {"generic", "Dropbox"} /\ info.content_type # "none"
         THEN IF Rejected(info.content_type) THEN "ExtractionError"
              ELSE IF info.content_type = "text/html" /\ info.extractor = "generic"
                   THEN "stream"
                   ELSE "url"
    ELSE "url"

\* the defer flag the stream path hands on (lines 145 and 165 pass head and
\* meta only, so add_stream_from_info runs with its default)
StreamPathDefer(defer_serialize) == FALSE

add_entry_from_info(q, m, rrq, req, log, info, entry, head, defer_serialize) ==
    LET path == InfoPath(info)
    IN  IF path \in {"ExtractionError", "WrongEntryTypeError"}
        THEN [entries |-> q, emitted |-> log, requested |-> req, raised |-> path,
              entry |-> None, kind |-> "none", position |-> 0]
        ELSE IF path = "stream"
        THEN add_stream_from_info(q, m, rrq, req, log, entry, head,
                                  StreamPathDefer(defer_serialize))
        ELSE LET a == add_entry(q, m, rrq, req, log, entry, head, defer_serialize)
             IN  [entries |-> a.entries, emitted |-> a.emitted,
                  requested |-> a.requested, raised |-> a.raised,
                  entry |-> entry, kind |-> "url",
                  position |-> IF head THEN 1 ELSE Len(a.entries)]

\* --------------------------------------------------- _try_get_entry_future
PredownloadNever(predownload_next, next_entry) == FALSE

\* predownload=True (lines 328-329, 333-348): the future is requested and not
\* awaited; an exception raised by the request itself is reported, not retried
WantsPredownload(predownload_next, next_entry) ==
    predownload_next /\ next_entry # None

\* entry.get_ready_future(): the call hands back a future, or raises
\* AttributeError when the entry has no live handle
get_ready_future(d, entry) == IF entry \in d THEN "AttributeError" ELSE "future"

Predownload(d, req, log, next_entry) ==
    IF get_ready_future(d, next_entry) = "AttributeError"
    THEN [requested |-> req,
          emitted |-> Emit(log, EntryFailed(next_entry, "AttributeError"))]
    ELSE [requested |-> req \cup {next_entry}, emitted |-> log]

\* ---------------------------------------------------------- get_next_entry
\* lines 350-367 followed by the call part of _try_get_entry_future(entry):
\* everything one call does until it returns or suspends in `await`.  An entry
\* without a live handle raises AttributeError from get_ready_future() itself,
\* which is caught at once and answered by the recursive get_next_entry()
\* (lines 339-346, predownload_next defaulting to True).
RECURSIVE get_next_entry(_, _, _, _, _, _)

\* lines 335 and 344: self.emit("entry-failed", entry=entry, error=e)
ReportFailureDropped(log, entry, err) == log

ReportFailure(log, entry, err) == Emit(log, EntryFailed(entry, err))

\* lines 336-337 and 345-346: return await self.get_next_entry()
RecoverGivesUp(q, d, req, log, tr) ==
    [entries |-> q, requested |-> req, emitted |-> log,
     pc |-> "done", cur |-> None, result |-> None, outcomes |-> tr]

RecoverNeverResumes(q, d, req, log, tr) ==
    [entries |-> q, requested |-> req, emitted |-> log,
     pc |-> "lost", cur |-> None, result |-> None, outcomes |-> tr]

Recover(q, d, req, log, tr) == get_next_entry(q, d, req, log, TRUE, tr)

get_next_entry(q, d, req, log, predownload_next, tr) ==
    IF q = <<>>
    THEN [entries |-> q, requested |-> req, emitted |-> log,
          pc |-> "done", cur |-> None, result |-> None, outcomes |-> tr]
    ELSE LET entry == Head(q)
             rest  == Tail(q)
             next_entry == peek(rest)
             pre == IF WantsPredownload(predownload_next, next_entry)
                    THEN Predownload(d, req, log, next_entry)
                    ELSE [requested |-> req, emitted |-> log]
         IN  IF get_ready_future(d, entry) = "AttributeError"
             THEN Recover(rest, d, pre.requested,
                          ReportFailure(pre.emitted, entry, "AttributeError"),
                          Append(tr, "AttributeError"))
             ELSE [entries |-> rest, requested |-> pre.requested \cup {entry},
                   emitted |-> pre.emitted, pc |-> "await", cur |-> entry,
                   result |-> None, outcomes |-> tr]

\* ------------------------------------------------------ positional access
\* deque.rotate(n): n steps to the right, to the left when n is negative; an
\* empty deque is left alone
Rotate(q, n) ==
    IF q = <<>> THEN q
    ELSE LET k == n % Len(q)
         IN  SubSeq(q, Len(q) - k + 1, Len(q)) \o SubSeq(q, 1, Len(q) - k)

get_entry_at_index_no_restore(q, index) ==
    LET q1 == Rotate(q, -index)
    IN  IF q1 = <<>>
        THEN [entries |-> q1, value |-> None, raised |-> "IndexError"]
        ELSE [entries |-> q1, value |-> q1[1], raised |-> "none"]

\* lines 68-72: rotate(-index); entry = entries[0]; rotate(index)
get_entry_at_index(q, index) ==
    LET q1 == Rotate(q, -index)
    IN  IF q1 = <<>>
        THEN [entries |-> q1, value |-> None, raised |-> "IndexError"]
        ELSE [entries |-> Rotate(q1, index), value |-> q1[1], raised |-> "none"]

delete_entry_at_index_same_rotation(q, index) ==
    LET q1 == Rotate(q, -index)
    IN  IF q1 = <<>>
        THEN [entries |-> q1, value |-> None, raised |-> "IndexError"]
        ELSE [entries |-> Rotate(Tail(q1), index + 1), value |-> Head(q1),
              raised |-> "none"]

\* lines 74-80: rotate(-index); entry = popleft(); rotate(index)
delete_entry_at_index(q, index) ==
    LET q1 == Rotate(q, -index)
    IN  IF q1 = <<>>
        THEN [entries |-> q1, value |-> None, raised |-> "IndexError"]
        ELSE [entries |-> Rotate(Tail(q1), index), value |-> Head(q1),
              raised |-> "none"]

insert_entry_at_index_append(q, index, entry) ==
    Rotate(Append(Rotate(q, -index), entry), index)

\* lines 82-86: rotate(-index); appendleft(entry); rotate(index)
insert_entry_at_index(q, index, entry) ==
    Rotate(<<entry>> \o Rotate(q, -index), index)

\* lines 407-408
count_for_user(q, m, user) == Cardinality({i \in 1..Len(q) : m[q[i]] = user})

\* ------------------------------------------------------------ serialization
\* constructs.py line 139
CLASS_SIGNATURE == {"__class__", "__module__", "data"}

\* constructs.py lines 141-151
enclose_json(class, module, data) ==
    [__class__ |-> class, __module__ |-> module, data |-> data]

\* an entry's own __json__ and _deserialize: the encoded entry carries what
\* identifies it, and decoding gives an entry equal to the encoded one
Entry_json(m, entry) ==
    enclose_json("PlaylistEntry", "musicbot.entry",
                 [id |-> entry, author |-> m[entry]])
Entry_deserialize(raw_json) == raw_json.id

\* lines 410-411, with the encoder's default() (constructs.py lines 88-96)
\* applied to every entry of list(self.entries)
Playlist_json(q, m) ==
    enclose_json("Playlist", "musicbot.playlist",
                 [entries |-> [i \in 1..Len(q) |-> Entry_json(m, q[i])]])

\* what pydoc.locate finds for a class signature (constructs.py line 106)
locate(module, class) ==
    IF module = "musicbot.playlist" /\ class = "Playlist" THEN "Playlist"
    ELSE IF module = "musicbot.entry" /\ class = "PlaylistEntry" THEN "PlaylistEntry"
    ELSE "none"

RECURSIVE AppendLeftEach(_, _)
AppendLeftEach(q, raw) ==
    IF raw = <<>> THEN q
    ELSE AppendLeftEach(<<Head(raw)>> \o q, Tail(raw))

\* lines 421-422: for entry in raw_json["entries"]: pl.entries.append(entry)
RECURSIVE AppendEach(_, _)
AppendEach(q, raw) ==
    IF raw = <<>> THEN q
    ELSE AppendEach(Append(q, Head(raw)), Tail(raw))

\* the bot a caller's frame offers to _get_vars (constructs.py lines 116-134)
Bots == {"none", "no_session", "ready"}

\* lines 413-425 and the constructor, lines 44-54
Playlist_deserialize(raw_json, bot) ==
    IF bot = "none" THEN [raised |-> "TypeError", entries |-> <<>>]
    ELSE IF bot = "no_session" THEN [raised |-> "RuntimeError", entries |-> <<>>]
    ELSE [raised |-> "none", entries |-> AppendEach(<<>>, raw_json.entries)]

\* constructs.py lines 98-114, used as the decoder's object hook: the encoded
\* entries are decoded before the playlist that holds them
Serializer_deserialize(data, bot) ==
    IF CLASS_SIGNATURE \subseteq DOMAIN data
          /\ locate(data.__module__, data.__class__) = "Playlist"
    THEN Playlist_deserialize(
             [entries |-> [i \in 1..Len(data.data.entries) |->
                             Entry_deserialize(data.data.entries[i].data)]],
             bot)
    ELSE [raised |-> "none", entries |-> <<>>]

\* ------------------------------------------------------ estimate_time_until
\* entry.duration is a number of seconds or None
Unknown == -1
SecondsPerDay == 86400
Durations == {Unknown, 7, SecondsPerDay + 5}

\* entry.duration_td: the duration as a timedelta, zero when it is unknown
duration_td(d) == IF d = Unknown THEN 0 ELSE d

\* line 395: timedelta.seconds is the part of the timedelta below one day
TdSeconds(td) == td % SecondsPerDay

SliceStopAtPosition(position) == position

\* lines 391 and 395: the stop argument of islice
SliceStop(position) == position - 1

\* islice(self.entries, stop) for a stop that is not negative
islice(q, stop) == SubSeq(q, 1, IF stop <= Len(q) THEN stop ELSE Len(q))

RECURSIVE SumSeconds(_, _)
SumSeconds(q, dur) ==
    IF q = <<>> THEN 0
    ELSE TdSeconds(duration_td(dur[Head(q)])) + SumSeconds(Tail(q), dur)

CurrentDurationFalsy(d) == d = Unknown \/ d = 0

\* line 400: player.current_entry.duration is None (a duration of 0 is known)
CurrentDurationMissing(d) == d = Unknown

\* lines 377-405; a negative stop makes islice raise ValueError
estimate_time_until(q, dur, position, player) ==
    IF SliceStop(position) < 0
    THEN [value |-> 0, raised |-> "ValueError"]
    ELSE LET before == islice(q, SliceStop(position))
         IN  IF \E i \in 1..Len(before) : dur[before[i]] = Unknown
             THEN [value |-> 0, raised |-> "InvalidDataError"]
             ELSE IF ~player.is_stopped /\ player.has_current
             THEN IF CurrentDurationMissing(player.duration)
                  THEN [value |-> 0, raised |-> "InvalidDataError"]
                  ELSE [value |-> SumSeconds(before, dur)
                                    + player.duration - player.progress,
                        raised |-> "none"]
             ELSE [value |-> SumSeconds(before, dur), raised |-> "none"]

\* ------------------------------------------------------------------ state
\* a player that is stopped and has no current entry
NoPlayer == [is_stopped |-> TRUE, has_current |-> FALSE, duration |-> 0,
             progress |-> 0]
\* the info of a call that takes none
NoInfo == [empty |-> TRUE, ytdl_type |-> "video", is_stream |-> FALSE,
           extractor |-> "youtube", content_type |-> "none"]
NoOp == [name |-> "none", entry |-> None, head |-> FALSE, defer |-> FALSE,
         raised |-> "none", kind |-> "none", position |-> 0, before |-> <<>>,
         index |-> 0, value |-> 0, user |-> None, player |-> NoPlayer,
         info |-> NoInfo, requested |-> {}]
NoCall == [queue |-> <<>>, predownload |-> TRUE, requested |-> {}, outcomes |-> <<>>,
           head_added |-> None, dead |-> {}, tried |-> <<>>, interleaved |-> 0,
           interleaved_before |-> 0,
           inflight |-> {}]
RRIdle == [status |-> "idle", entries |-> <<>>, new_queue |-> <<>>,
           all_authors |-> <<>>, request_counter |-> 0, moved |-> 0, dropped |-> 0,
           before |-> <<>>, last |-> "none"]
NoHist == [tail_only |-> TRUE, failures |-> FALSE, adds |-> 0]
NoOverlap == [pc |-> "idle", cur |-> None, result |-> None, inflight |-> {}]

\* a playlist is constructed empty (line 54) or rebuilt by _deserialize
\* (lines 413-425), which appends the decoded entries in stored order, requests
\* nothing and emits nothing
Deserialized(n) == [i \in 1..n |-> i]

Init ==
    /\ em = NoEmitter
    /\ \E n \in 0..MaxLoaded :
        /\ entries = Deserialized(n)
        /\ meta \in [1..n -> AuthorsOrNone]
        /\ dead \in SUBSET (1..n)
        /\ next_id = n + 1
    /\ round_robin_queue \in BOOLEAN
    /\ requested = {}
    /\ emitted = <<>>
    /\ pc = "idle"
    /\ cur = None
    /\ result = None
    /\ call = NoCall
    /\ op = NoOp
    /\ hist = NoHist
    /\ rr = RRIdle
    /\ duration = <<>>
    /\ bg = NoOverlap

GetNextVars == <<pc, cur, result, call>>

\* Bookkeeping is kept only for the entries the playlist still refers to (the
\* queued ones and the one being awaited); an entry that has left is never
\* looked at again.
Live(S, q, c) == S \cap (Range(q) \cup {c, bg.cur})
LiveMeta(m, q, c) ==
    [i \in DOMAIN m |-> IF i \in Range(q) \cup {c, bg.cur} THEN m[i] ELSE None]

\* ghost: the entries a step of get_next_entry took off the head of q
Popped(q, rest) == SubSeq(q, 1, Len(q) - Len(rest))

\* ghost: the entries a call has popped and neither returned nor reported as
\* failed, after a step that popped `popped`, left the log `log` and returned
\* `returned`
Reported(log) ==
    {log[i].entry : i \in {j \in 1..Len(log) : log[j].name = "entry-failed"}}
StillCurrent(inflight, popped, log, returned) ==
    ((inflight \cup Range(popped)) \ Reported(log)) \ {returned}

\* ---------------------------------------------------------------- actions
\* ghost: one more operation has run beside the suspended call
Interleaved(n) == IF n < MaxInterleaved THEN n ELSE MaxInterleaved
Interleave(n) == Interleaved(n + 1)

\* the caller of a finished get_next_entry has taken its result by the time
\* it makes another call; a suspended call stays suspended
ResultConsumed ==
    IF pc = "done"
    THEN pc' = "idle" /\ result' = None /\ call' = NoCall /\ cur' = cur
    ELSE IF pc = "await"
    THEN /\ call' = [call EXCEPT !.interleaved = Interleave(@)]
         /\ UNCHANGED <<pc, cur, result>>
    ELSE UNCHANGED GetNextVars

\* a front-end call of add_entry_from_info, as one synchronous step
AddEntryFromInfo(info, author, head, defer_serialize) ==
    /\ LET entry == next_id
           m1 == Append(meta, author)
           a  == add_entry_from_info(entries, m1, round_robin_queue, requested,
                                     <<>>, info, entry, head, defer_serialize)
       IN  /\ entries' = a.entries
           /\ emitted' = a.emitted
           /\ requested' = a.requested
           /\ meta' = IF a.entry = None THEN meta ELSE m1
           /\ next_id' = IF a.entry = None THEN next_id ELSE next_id + 1
           /\ op' = [name |-> "add_entry_from_info", entry |-> a.entry,
                     head |-> head, defer |-> defer_serialize, raised |-> a.raised,
                     kind |-> a.kind, position |-> a.position, before |-> entries,
                     index |-> 0, value |-> 0, user |-> None,
                     player |-> NoPlayer, info |-> info,
                     requested |-> requested]
           /\ hist' = [hist EXCEPT !.tail_only = @ /\ (a.entry = None \/ ~head),
                                !.adds = IF @ < MaxAdds THEN @ + 1 ELSE @]
    /\ ResultConsumed
    /\ UNCHANGED <<dead, round_robin_queue, duration, em, bg, rr>>

\* a front-end call of add_stream_from_info
AddStreamFromInfo(author, head, defer_serialize) ==
    /\ LET entry == next_id
           m1 == Append(meta, author)
           a  == add_stream_from_info(entries, m1, round_robin_queue, requested,
                                      <<>>, entry, head, defer_serialize)
       IN  /\ entries' = a.entries
           /\ emitted' = a.emitted
           /\ requested' = a.requested
           /\ meta' = m1
           /\ next_id' = next_id + 1
           /\ op' = [name |-> "add_stream_from_info", entry |-> a.entry,
                     head |-> head, defer |-> defer_serialize, raised |-> a.raised,
                     kind |-> a.kind, position |-> a.position, before |-> entries,
                     index |-> 0, value |-> 0, user |-> None,
                     player |-> NoPlayer, info |-> NoInfo,
                     requested |-> requested]
           /\ hist' = [hist EXCEPT !.tail_only = @ /\ ~head,
                                !.adds = IF @ < MaxAdds THEN @ + 1 ELSE @]
    /\ ResultConsumed
    /\ UNCHANGED <<dead, round_robin_queue, duration, em, bg, rr>>

\* the playback loop calls get_next_entry(predownload_next)
GetNextEntry(predownload_next) ==
    /\ pc # "await"
    /\ LET g == get_next_entry(entries, dead, requested, <<>>, predownload_next, <<>>)
       IN  /\ entries' = g.entries
           /\ requested' = Live(g.requested, g.entries, g.cur)
           /\ dead' = Live(dead, g.entries, g.cur)
           /\ meta' = LiveMeta(meta, g.entries, g.cur)
           /\ emitted' = g.emitted
           /\ pc' = g.pc
           /\ cur' = g.cur
           /\ result' = g.result
           /\ call' = [queue |-> entries, predownload |-> predownload_next,
                       requested |-> requested, outcomes |-> g.outcomes,
                       head_added |-> IF op.head /\ op.raised = "none"
                                      THEN op.entry ELSE None,
                       dead |-> dead,
                       tried |-> Popped(entries, g.entries),
                       interleaved |-> 0,
                       interleaved_before |->
                           Interleaved(call.interleaved_before + call.interleaved),
                       inflight |-> StillCurrent({}, Popped(entries, g.entries),
                                                 g.emitted, g.result)]
           /\ hist' = [hist EXCEPT !.failures = @ \/ g.emitted # <<>>]
    /\ op' = NoOp
    /\ UNCHANGED <<next_id, round_robin_queue, duration, em, bg, rr>>

\* the awaited future resolves with the entry (line 331 returns it)
FutureSucceeds ==
    /\ pc = "await"
    /\ pc' = "done"
    /\ result' = cur
    /\ cur' = None
    /\ call' = [call EXCEPT !.outcomes = Append(@, "ok"),
                            !.inflight = StillCurrent(@, <<>>, <<>>, cur)]
    /\ requested' = Live(requested, entries, None)
    /\ meta' = LiveMeta(meta, entries, None)
    /\ UNCHANGED <<entries, dead, next_id, round_robin_queue, duration, em, bg,
                   emitted, op, hist, rr>>

\* the awaited future fails with ExtractionError or AttributeError (lines
\* 333-346): the failure is emitted and get_next_entry() is entered again
FutureFails(err) ==
    /\ pc = "await"
    /\ LET g == Recover(entries, dead, requested,
                        ReportFailure(emitted, cur, err),
                        Append(call.outcomes, err))
       IN  /\ entries' = g.entries
           /\ requested' = Live(g.requested, g.entries, g.cur)
           /\ dead' = Live(dead, g.entries, g.cur)
           /\ meta' = LiveMeta(meta, g.entries, g.cur)
           /\ emitted' = g.emitted
           /\ pc' = g.pc
           /\ cur' = g.cur
           /\ result' = g.result
           /\ call' = [call EXCEPT !.outcomes = g.outcomes,
                                    !.tried = @ \o Popped(entries, g.entries),
                                    !.inflight =
                                        StillCurrent(@, Popped(entries, g.entries),
                                                     g.emitted, g.result)]
    /\ hist' = [hist EXCEPT !.failures = TRUE]
    /\ UNCHANGED <<next_id, round_robin_queue, duration, em, bg, op, rr>>

\* --------------------------------------------------- an overlapping caller
\* the playlist takes no lock (line 76): while one get_next_entry call is
\* suspended, another task may call get_next_entry on the same playlist
NoteInterference ==
    call' = IF pc = "await" THEN [call EXCEPT !.interleaved = Interleave(@)]
            ELSE call

OverlapStep(g) ==
    /\ entries' = g.entries
    /\ requested' = requested \cap (Range(g.entries) \cup {cur, g.cur})
    /\ dead' = dead \cap (Range(g.entries) \cup {cur, g.cur})
    /\ meta' = [i \in DOMAIN meta |->
                  IF i \in Range(g.entries) \cup {cur, g.cur}
                  THEN meta[i] ELSE None]
    /\ emitted' = g.emitted
    /\ bg' = [pc |-> g.pc, cur |-> g.cur, result |-> g.result,
              inflight |-> StillCurrent(bg.inflight, Popped(entries, g.entries),
                                        g.emitted, g.result)]
    /\ NoteInterference
    /\ UNCHANGED <<pc, cur, result, next_id, round_robin_queue, duration, em,
                   op, hist, rr>>

OverlapCall(predownload_next) ==
    /\ pc = "await"
    /\ bg.pc # "await"
    /\ OverlapStep(get_next_entry(entries, dead, requested, <<>>,
                                  predownload_next, <<>>))

OverlapSucceeds ==
    /\ bg.pc = "await"
    /\ bg' = [pc |-> "done", cur |-> None, result |-> bg.cur,
              inflight |-> StillCurrent(bg.inflight, <<>>, <<>>, bg.cur)]
    /\ requested' = requested \cap (Range(entries) \cup {cur})
    /\ meta' = [i \in DOMAIN meta |->
                  IF i \in Range(entries) \cup {cur} THEN meta[i] ELSE None]
    /\ UNCHANGED <<entries, dead, next_id, round_robin_queue, duration, em, emitted,
                   pc, cur, result, call, op, hist, rr>>

OverlapFails(err) ==
    /\ bg.pc = "await"
    /\ OverlapStep(Recover(entries, dead, requested,
                           ReportFailure(emitted, bg.cur, err), <<>>))

\* ------------------------------------------------- positional operations
\* the index arguments tried on a queue: every valid one and one beyond each end
Indices(q) == (0 - 1)..(Len(q) + 1)

DeleteEntryAtIndex(index) ==
    /\ LET r == delete_entry_at_index(entries, index)
       IN  /\ entries' = r.entries
           /\ requested' = Live(requested, r.entries, cur)
           /\ dead' = Live(dead, r.entries, cur)
           /\ meta' = LiveMeta(meta, r.entries, cur)
           /\ op' = [NoOp EXCEPT !.name = "delete_entry_at_index",
                                 !.index = index, !.value = r.value,
                                 !.raised = r.raised, !.before = entries]
    /\ emitted' = <<>>
    /\ ResultConsumed
    /\ UNCHANGED <<next_id, round_robin_queue, duration, em, bg, hist, rr>>

\* the caller inserts an entry it has just built
InsertEntryAtIndex(index, author) ==
    /\ LET entry == next_id
       IN  /\ entries' = insert_entry_at_index(entries, index, entry)
           /\ meta' = Append(meta, author)
           /\ next_id' = next_id + 1
           /\ op' = [NoOp EXCEPT !.name = "insert_entry_at_index",
                                 !.index = index, !.entry = entry,
                                 !.before = entries]
    /\ emitted' = <<>>
    /\ ResultConsumed
    /\ UNCHANGED <<dead, round_robin_queue, duration, em, bg, requested, hist, rr>>

\* lines 62-63: random.shuffle leaves any arrangement of the same entries
Shuffle ==
    /\ \E f \in [1..Len(entries) -> Range(entries)] :
          /\ Range(f) = Range(entries)
          /\ entries' = f
    /\ op' = [NoOp EXCEPT !.name = "shuffle", !.before = entries]
    /\ emitted' = <<>>
    /\ ResultConsumed
    /\ UNCHANGED <<meta, dead, next_id, round_robin_queue, duration, em, bg,
                   requested, hist, rr>>

\* lines 65-66
Clear ==
    /\ entries' = <<>>
    /\ requested' = Live(requested, <<>>, cur)
    /\ dead' = Live(dead, <<>>, cur)
    /\ meta' = LiveMeta(meta, <<>>, cur)
    /\ op' = [NoOp EXCEPT !.name = "clear", !.before = entries]
    /\ emitted' = <<>>
    /\ ResultConsumed
    /\ UNCHANGED <<next_id, round_robin_queue, duration, em, bg, hist, rr>>

\* -------------------------------------------------------------- persistence
\* playlist.serialize(): the encoded form is handed to the caller
Serialize ==
    /\ pc # "await"
    /\ op' = [NoOp EXCEPT !.name = "serialize", !.before = entries,
                          !.value = Playlist_json(entries, meta)]
    /\ emitted' = <<>>
    /\ ResultConsumed
    /\ UNCHANGED <<entries, meta, dead, next_id, round_robin_queue, duration, em, bg,
                   requested, hist, rr>>

\* the encoded form is decoded into a new playlist that replaces the old one;
\* the entries of `lost` come back without their live handle
Deserialize(bot, lost) ==
    /\ pc # "await"
    /\ op.name = "serialize"
    /\ LET r == Serializer_deserialize(op.value, bot)
       IN  /\ op' = [NoOp EXCEPT !.name = "deserialize", !.before = op.before,
                                 !.raised = r.raised]
           /\ IF r.raised = "none"
              THEN /\ entries' = r.entries
                   /\ lost \subseteq Range(r.entries)
                   /\ dead' = lost
                   /\ meta' = [e \in DOMAIN meta |->
                                 IF \E i \in 1..Len(op.value.data.entries) :
                                       op.value.data.entries[i].data.id = e
                                 THEN meta[e] ELSE None]
                   /\ requested' = {}
                   /\ emitted' = <<>>
                   /\ pc' = "idle" /\ cur' = None /\ result' = None
                   /\ call' = NoCall
              ELSE /\ lost = {}
                   /\ emitted' = <<>>
                   /\ ResultConsumed
                   /\ UNCHANGED <<entries, dead, meta, requested>>
    /\ UNCHANGED <<next_id, round_robin_queue, duration, em, bg, hist, rr>>

\* ------------------------------------------------------ read-only operations
ReadOnly(name, r, index, user, player) ==
    /\ entries' = r.entries
    /\ op' = [NoOp EXCEPT !.name = name, !.index = index, !.user = user,
                          !.player = player, !.value = r.value,
                          !.raised = r.raised, !.before = entries]
    /\ emitted' = <<>>
    /\ ResultConsumed
    /\ UNCHANGED <<meta, dead, next_id, round_robin_queue, duration, em, bg,
                   requested, hist, rr>>

Peek ==
    ReadOnly("peek", [entries |-> entries, value |-> peek(entries),
                      raised |-> "none"], 0, None, NoPlayer)

GetEntryAtIndex(index) ==
    ReadOnly("get_entry_at_index", get_entry_at_index(entries, index),
             index, None, NoPlayer)

CountForUser(user) ==
    ReadOnly("count_for_user",
             [entries |-> entries, value |-> count_for_user(entries, meta, user),
              raised |-> "none"], 0, user, NoPlayer)

GetNextSongFromAuthor(author) ==
    ReadOnly("get_next_song_from_author",
             [entries |-> entries,
              value |-> get_next_song_from_author(entries, meta, author),
              raised |-> "none"], 0, author, NoPlayer)

EstimateTimeUntil(position, player) ==
    ReadOnly("estimate_time_until",
             [entries |-> entries] @@
                 estimate_time_until(entries, duration, position, player),
             position, None, player)

\* ------------------------------------------- the reorder loop, step by step
\* reorder_for_round_robin is entered on the current queue (lines 275-284)
ReorderCall ==
    /\ rr.status # "loop"
    /\ pc # "await"
    /\ rr' = [RRBegin(entries, meta) EXCEPT !.status = "loop"]
               @@ [before |-> entries, last |-> "enter"]
    /\ op' = NoOp
    /\ ResultConsumed
    /\ UNCHANGED <<entries, meta, dead, next_id, round_robin_queue, duration, em, bg, requested,
                   emitted, hist>>

\* what one evaluation of the loop did
StepKind(st, nx) ==
    IF nx.status = "done" THEN "exit"
    ELSE IF nx.status = "IndexError" THEN "raise"
    ELSE IF nx.moved > st.moved THEN "move"
    ELSE "drop"

\* the while condition is evaluated and, when it holds, the body runs once;
\* self.entries is mutated in place by remove() and replaced on exit
ReorderStep ==
    /\ rr.status = "loop"
    /\ LET st == [f \in DOMAIN RRBegin(<<>>, <<>>) |-> rr[f]]
           nx == RRIterate(st, meta)
       IN  /\ rr' = nx @@ [before |-> rr.before, last |-> StepKind(st, nx)]
           /\ entries' = nx.entries
    /\ UNCHANGED <<meta, dead, next_id, round_robin_queue, duration, em, bg, requested, emitted,
                   op, hist, GetNextVars>>

\* a queue of n authored or authorless entries on which the loop is run alone
InitRR ==
    /\ em = NoEmitter
    /\ \E n \in 0..MaxRRLen :
        /\ entries = Deserialized(n)
        /\ meta \in [1..n -> 0..NumRRAuthors]
        /\ next_id = n + 1
    /\ dead = {}
    /\ round_robin_queue = TRUE
    /\ requested = {}
    /\ emitted = <<>>
    /\ pc = "idle"
    /\ cur = None
    /\ result = None
    /\ call = NoCall
    /\ op = NoOp
    /\ hist = NoHist
    /\ rr = RRIdle
    /\ duration = <<>>
    /\ bg = NoOverlap

NextRR == ReorderCall \/ ReorderStep

SpecRR == InitRR /\ [][NextRR]_vars

\* ------------------------------------------------------------ specifications
\* extraction results that exercise every branch of lines 131-173
PlainMedia ==
    [empty |-> FALSE, ytdl_type |-> "video", is_stream |-> FALSE,
     extractor |-> "youtube", content_type |-> "none"]

InfoSamples ==
    { PlainMedia,
      [PlainMedia EXCEPT !.empty = TRUE],
      [PlainMedia EXCEPT !.ytdl_type = "playlist"],
      [PlainMedia EXCEPT !.is_stream = TRUE],
      [PlainMedia EXCEPT !.extractor = "generic", !.content_type = "application/zip"],
      [PlainMedia EXCEPT !.extractor = "Dropbox", !.content_type = "image/png"],
      [PlainMedia EXCEPT !.extractor = "generic", !.content_type = "application/ogg"],
      [PlainMedia EXCEPT !.extractor = "generic", !.content_type = "text/html"],
      [PlainMedia EXCEPT !.extractor = "Dropbox", !.content_type = "text/html"],
      [PlainMedia EXCEPT !.extractor = "generic", !.content_type = "audio/mpeg"] }

\* the exceptions of an awaited readiness future that the queue recovers from
AwaitErrors == {"ExtractionError", "AttributeError"}

\* the queue driven by the playback loop: plain adds, pops and their futures
Next ==
    \/ /\ next_id <= MaxEntries
       /\ pc # "await"
       /\ \E a \in AuthorsOrNone, h \in BOOLEAN :
             AddEntryFromInfo(PlainMedia, a, h, FALSE)
    \/ \E p \in BOOLEAN : GetNextEntry(p)
    \/ FutureSucceeds
    \/ \E err \in AwaitErrors : FutureFails(err)

Spec == Init /\ [][Next]_vars

\* every way an entry can be offered to the queue.  The loaded queue ranges
\* over every author assignment, so the new entry is authorless or by author 1.
NewAuthors == {None, 1}

NextAdd ==
    \/ /\ hist.adds < MaxAdds
       /\ \E info \in InfoSamples, a \in NewAuthors, h \in BOOLEAN, d \in BOOLEAN :
             AddEntryFromInfo(info, a, h, d)
    \/ /\ hist.adds < MaxAdds
       /\ \E a \in NewAuthors, h \in BOOLEAN, d \in BOOLEAN :
             AddStreamFromInfo(a, h, d)

\* a loaded playlist whose entries are all live
InitAdd == Init /\ dead = {}

SpecAdd == InitAdd /\ [][NextAdd]_vars

\* ---------------------------------------------- specification with fairness
\* a readiness future that is being awaited is eventually settled by the
\* entry's download, one way or the other
Resolve == FutureSucceeds \/ \E err \in AwaitErrors : FutureFails(err)

\* calls on a loaded playlist to which nothing is added
NextLive ==
    \/ \E p \in BOOLEAN : GetNextEntry(p)
    \/ FutureSucceeds
    \/ \E err \in AwaitErrors : FutureFails(err)

SpecLive == Init /\ [][NextLive]_vars /\ WF_vars(Resolve)

\* a loaded playlist of live, authorless entries, round-robin off
InitPlain ==
    /\ InitAdd
    /\ ~round_robin_queue
    /\ \A e \in DOMAIN meta : meta[e] = None

\* ------------------------------------------------- emitter specification
\* the tasks an emit to these callbacks hands to the loop
Pending(cbs) == Len(SelectSeq(cbs, iscoroutinefunction))

Registered == Len(em.events["entry-added"]) + Len(em.events["entry-failed"])

\* a subscriber registers a callback
On(event, cb) ==
    /\ Registered < MaxRegistered
    /\ em' = on(Fresh(em), event, cb)
    /\ op' = [NoOp EXCEPT !.name = "on"]
    /\ emitted' = <<>>
    /\ ResultConsumed
    /\ UNCHANGED <<entries, meta, dead, next_id, round_robin_queue, requested,
                   hist, rr, duration, bg>>

\* the playlist emits an event about one of its entries
EmitEvent(event, entry) ==
    /\ Len(em.scheduled) + Pending(em.events[event]) <= MaxScheduled
    /\ em' = emit(Calling(em, event, entry), event,
                  Payload(entry, entries, requested))
    /\ op' = [NoOp EXCEPT !.name = "emit", !.entry = entry]
    /\ emitted' = <<>>
    /\ ResultConsumed
    /\ UNCHANGED <<entries, meta, dead, next_id, round_robin_queue, requested,
                   hist, rr, duration, bg>>

\* the event loop runs the task it was handed first
RunScheduled ==
    /\ em.scheduled # <<>>
    /\ em' = [Body(Fresh(em), Head(em.scheduled).cb, Head(em.scheduled).event)
                EXCEPT !.scheduled = Tail(@), !.raised = "none"]
    /\ op' = [NoOp EXCEPT !.name = "run", !.entry = Head(em.scheduled).entry]
    /\ emitted' = <<>>
    /\ ResultConsumed
    /\ UNCHANGED <<entries, meta, dead, next_id, round_robin_queue, requested,
                   hist, rr, duration, bg>>

\* _add_entry of a new entry on a playlist that has subscribers
AddSubscribed(author, head, defer_serialize) ==
    /\ Len(em.scheduled) + Pending(em.events["entry-added"]) <= MaxScheduled
    /\ LET entry == next_id
           m1 == Append(meta, author)
           a  == add_entry_subscribed(entries, m1, round_robin_queue, requested,
                                      Calling(em, "entry-added", entry), entry,
                                      head, defer_serialize)
       IN  /\ entries' = a.entries
           /\ em' = a.em
           /\ requested' = a.requested
           /\ meta' = m1
           /\ next_id' = next_id + 1
           /\ emitted' = IF a.raised = "IndexError" THEN <<>>
                         ELSE EmitAdded(<<>>, entry, defer_serialize)
           /\ op' = [NoOp EXCEPT !.name = "_add_entry", !.entry = entry,
                                 !.head = head, !.defer = defer_serialize,
                                 !.raised = a.raised, !.before = entries,
                                 !.requested = requested]
           /\ hist' = [hist EXCEPT !.tail_only = @ /\ ~head,
                                !.adds = IF @ < MaxAdds THEN @ + 1 ELSE @]
    /\ ResultConsumed
    /\ UNCHANGED <<dead, round_robin_queue, duration, bg, rr>>

NextEmit ==
    \/ \E event \in EventNames, cb \in Handlers : On(event, cb)
    \/ \E event \in EventNames : EmitEvent(event, peek(entries))
    \/ RunScheduled

\* a loaded playlist, nobody subscribed yet
InitEmit == InitPlain

SpecEmit == InitEmit /\ [][NextEmit]_vars

\* ------------------------------------------- subscribed-adds specification
\* the handler lists a start-up can leave behind for entry-added: runs of
\* different callbacks, registered one after the other
RECURSIVE OnEach(_, _, _)
OnEach(st, event, cbs) ==
    IF cbs = <<>> THEN st
    ELSE OnEach(on(st, event, Head(cbs)), event, Tail(cbs))

StartupOrder == <<3, 2, 1, 4>>
SubscriberLists ==
    { [k \in 1..n |-> StartupOrder[((i + k - 2) % Len(StartupOrder)) + 1]] :
        i \in 1..Len(StartupOrder), n \in 0..MaxRegistered }

NextSub ==
    \/ /\ hist.adds < MaxAdds
       /\ \E a \in Authors, h \in BOOLEAN : AddSubscribed(a, h, FALSE)
    \/ EmitEvent("entry-added", peek(entries))
    \/ RunScheduled

\* a loaded playlist that has its entry-added subscribers
InitSub ==
    /\ \E n \in 0..MaxLoaded :
        /\ entries = Deserialized(n)
        /\ meta \in [1..n -> Authors]
        /\ next_id = n + 1
    /\ dead = {}
    /\ round_robin_queue \in BOOLEAN
    /\ requested = {}
    /\ emitted = <<>>
    /\ pc = "idle"
    /\ cur = None
    /\ result = None
    /\ call = NoCall
    /\ op = NoOp
    /\ hist = NoHist
    /\ rr = RRIdle
    /\ duration = <<>>
    /\ bg = NoOverlap
    /\ \E cbs \in SubscriberLists : em = OnEach(NoEmitter, "entry-added", cbs)

SpecSub == InitSub /\ [][NextSub]_vars

\* ------------------------------------------- registration specification
\* a front-end that registers, unregisters and emits on a new playlist
MaxCalls == 5

RegEvent == "entry-added"
Registrable == {PlainHandler} \cup Listeners

Count(s, x) == Len(SelectSeq(s, LAMBDA y : y = x))

\* the call on the emitter, the registrations it found and the call before it
RegCall(name, cb, st) ==
    [NoOp EXCEPT !.name = name, !.value = cb, !.before = em.events[RegEvent],
                 !.raised = st.raised]
    @@ [prev |-> [name |-> op.name, cb |-> op.value, before |-> op.before]]

RegStep(name, cb, st) ==
    /\ em' = [st EXCEPT !.calls = @ + 1]
    /\ op' = RegCall(name, cb, st)
    /\ UNCHANGED <<entries, meta, dead, next_id, round_robin_queue, requested,
                   emitted, pc, cur, result, call, hist, rr, duration, bg>>

RegOn(cb) ==
    /\ em.calls < MaxCalls
    /\ RegStep("on", cb, on(Fresh(em), RegEvent, cb))

RegOff(cb) ==
    /\ em.calls < MaxCalls
    /\ RegStep("off", cb, off(Fresh(em), RegEvent, cb))

\* the wrapper is known to once() alone, so it is never handed to off()
RegOnce ==
    /\ em.calls < MaxCalls
    /\ RegStep("once", OnceWrapper,
               [once(Fresh(em), RegEvent) EXCEPT !.onces = @ + 1])

RegEmit ==
    /\ em.calls < MaxCalls
    /\ \E r \in {emit(Calling(em, RegEvent, None), RegEvent,
                      Payload(None, entries, requested))} :
          RegStep("emit", None,
                  [r EXCEPT !.once_runs = @ + Count(r.ran, OnceWrapper)])

NextReg ==
    \/ \E cb \in Registrable : RegOn(cb)
    \/ \E cb \in Registrable : RegOff(cb)
    \/ RegOnce
    \/ RegEmit

InitReg == InitPlain /\ entries = <<>>

SpecReg == InitReg /\ [][NextReg]_vars

\* ------------------------------------------- fresh-playlist specification
\* a playlist constructed empty (line 54) that is only added to and popped
\* with prefetching on
NextFresh ==
    \/ /\ next_id <= MaxEntries
       /\ pc # "await"
       /\ \E a \in AuthorsOrNone, h \in BOOLEAN :
             AddEntryFromInfo(PlainMedia, a, h, FALSE)
    \/ GetNextEntry(TRUE)
    \/ FutureSucceeds
    \/ \E err \in AwaitErrors : FutureFails(err)

InitFresh == Init /\ entries = <<>>

SpecFresh == InitFresh /\ [][NextFresh]_vars

\* --------------------------------------------------------- import_from_info
MaxItems == 3

\* the items of an extracted playlist: playable media, a stream, a file whose
\* content type is refused, a song longer than the requester may queue, and a
\* video that youtube lists as private or deleted
ItemKinds == {"media", "stream", "zip", "long", "private"}

ItemInfo(item) ==
    CASE item = "stream" -> [PlainMedia EXCEPT !.is_stream = TRUE]
      [] item = "zip"    -> [PlainMedia EXCEPT !.extractor = "generic",
                                               !.content_type = "application/zip"]
      [] OTHER           -> PlainMedia

\* bot.permissions.for_user(author).max_song_length: requester 1 is limited
max_song_length(author) == IF author = 1 THEN 5 ELSE 0
ItemDuration(item) == IF item = "long" THEN 9 ELSE 3

\* info.entry_count: the number of items of the extracted playlist
entry_count(items) == Len(items)

\* lines 213-235: the items that are left out before an add is tried
Prefiltered(item, author, youtube) ==
    \/ /\ author # None
       /\ max_song_length(author) # 0
       /\ ItemDuration(item) > max_song_length(author)
    \/ youtube /\ item = "private"

ProcessingOrderForward(n, head) == [k \in 1..n |-> k]

\* lines 204-205: entries.reverse() for a head import
ProcessingOrder(n, head) ==
    IF head THEN [k \in 1..n |-> n + 1 - k] ELSE [k \in 1..n |-> k]

DeferAlways(defer_serialize, track_number, count) == defer_serialize

\* lines 242-243
DeferUntilLast(defer_serialize, track_number, count) ==
    IF track_number >= count THEN FALSE ELSE defer_serialize

\* locals on entry to the loop (lines 193-207)
ImportBegin(q, m, req, log, first_id, items, head) ==
    [entries |-> q, m |-> m, requested |-> req, emitted |-> log,
     next_id |-> first_id, entry_list |-> <<>>,
     made |-> [k \in 1..Len(items) |-> None], defer_serialize |-> TRUE,
     track_number |-> 0, baditems |-> 0, raised |-> "none",
     position |-> IF head THEN 1 ELSE Len(q) + 1]

\* lines 208-253: the loop over the items, i-th item of the extracted list next
\* one turn of the loop for the item `item`, i-th of the extracted list, with
\* `a` what add_entry_from_info does for it (lines 209-253)
ImportItem(st, a, i, item, d, author, youtube) ==
    IF Prefiltered(item, author, youtube)
    THEN [st EXCEPT !.track_number = @ + 1, !.baditems = @ + 1]
    ELSE IF a.raised \in {"ExtractionError", "WrongEntryTypeError"}
    THEN [st EXCEPT !.track_number = @ + 1, !.baditems = @ + 1,
                    !.defer_serialize = d]
    ELSE IF a.raised # "none"
    THEN [st EXCEPT !.entries = a.entries, !.m = Append(@, author),
                    !.next_id = @ + 1, !.track_number = @ + 1,
                    !.defer_serialize = d, !.raised = a.raised]
    ELSE [st EXCEPT !.entries = a.entries, !.m = Append(@, author),
                    !.requested = a.requested, !.emitted = a.emitted,
                    !.next_id = @ + 1, !.entry_list = Append(@, a.entry),
                    !.made[i] = a.entry, !.track_number = @ + 1,
                    !.defer_serialize = d]

\* lines 208-253: the loop over the items in processing order
RECURSIVE ImportEach(_, _, _, _, _, _, _)
ImportEach(st0, items, order, rrq, head, author, youtube) ==
    IF order = <<>> THEN st0
    ELSE CHOOSE r \in
           { IF st.raised # "none" THEN st
             ELSE ImportEach(ImportItem(st, a, Head(order), items[Head(order)], d,
                                        author, youtube),
                             items, Tail(order), rrq, head, author, youtube) :
               st \in {st0},
               d \in {DeferUntilLast(st0.defer_serialize, st0.track_number + 1,
                                     entry_count(items))},
               a \in {add_entry_from_info(
                          st0.entries, Append(st0.m, author), rrq, st0.requested,
                          st0.emitted, ItemInfo(items[Head(order)]), st0.next_id,
                          head,
                          DeferUntilLast(st0.defer_serialize, st0.track_number + 1,
                                         entry_count(items)))} } : TRUE

Reverse(s) == [k \in 1..Len(s) |-> s[Len(s) + 1 - k]]

\* lines 182-260
import_from_info(q, m, rrq, req, log, first_id, items, head, author, youtube) ==
    CHOOSE r \in
      { IF st.raised # "none" THEN st
        ELSE [st EXCEPT !.entry_list = IF head THEN Reverse(@) ELSE @] :
          st \in {ImportEach(ImportBegin(q, m, req, log, first_id, items, head),
                             items, ProcessingOrder(Len(items), head), rrq, head,
                             author, youtube)} } : TRUE

\* the extracted playlists that are imported
ItemLists == UNION {[1..n -> ItemKinds] : n \in 0..MaxItems}

\* a front-end call of import_from_info, as one synchronous step
ImportFromInfo(items, head, author, youtube) ==
    /\ \E r \in {import_from_info(entries, meta, round_robin_queue, requested,
                                  <<>>, next_id, items, head, author, youtube)} :
           /\ entries' = r.entries
           /\ emitted' = r.emitted
           /\ requested' = r.requested
           /\ meta' = r.m
           /\ next_id' = r.next_id
           /\ op' = [NoOp EXCEPT !.name = "import_from_info", !.head = head,
                                 !.raised = r.raised, !.before = entries,
                                 !.position = r.position, !.user = author,
                                 !.requested = requested]
                    @@ [items |-> items, made |-> r.made,
                        entry_list |-> r.entry_list, youtube |-> youtube]
           /\ hist' = [hist EXCEPT !.tail_only = @ /\ ~head,
                                !.adds = IF @ < MaxAdds THEN @ + 1 ELSE @]
    /\ ResultConsumed
    /\ UNCHANGED <<dead, round_robin_queue, duration, bg, rr, em>>

\* one import into a loaded playlist
NextImport ==
    /\ op = NoOp
    /\ \E items \in ItemLists, h \in BOOLEAN, a \in NewAuthors, y \in BOOLEAN :
          ImportFromInfo(items, h, a, y)

\* a loaded playlist whose entries are authorless or by author 1
InitImport ==
    /\ InitAdd
    /\ \A e \in DOMAIN meta : meta[e] \in NewAuthors

SpecImport == InitImport /\ [][NextImport]_vars

\* ----------------------------------------------- persistence specification
\* a playlist that is played, added to, saved and loaded again
NextSer ==
    \/ /\ next_id <= MaxEntries
       /\ pc # "await"
       /\ \E h \in BOOLEAN : AddEntryFromInfo(PlainMedia, None, h, FALSE)
    \/ \E p \in BOOLEAN : GetNextEntry(p)
    \/ FutureSucceeds
    \/ \E err \in AwaitErrors : FutureFails(err)
    \/ Serialize
    \/ \E bot \in Bots, lost \in SUBSET Ids : Deserialize(bot, lost)

SpecSer == InitPlain /\ [][NextSer]_vars

\* ------------------------------------------------ positional specification
\* delete, insert, shuffle and clear on a loaded playlist, nothing in flight
NextOps ==
    \/ \E i \in Indices(entries) : DeleteEntryAtIndex(i)
    \/ /\ next_id <= MaxEntries
       /\ \E i \in Indices(entries) : InsertEntryAtIndex(i, None)
    \/ Shuffle
    \/ Clear

SpecOps == InitPlain /\ [][NextOps]_vars

\* ------------------------------------------------- read-only specification
\* the players an estimate is asked with: stopped, playing, playing an entry
\* of unknown duration, stopped with an entry still set, playing past the end
Playing == [is_stopped |-> FALSE, has_current |-> TRUE, duration |-> 7,
            progress |-> 3]
PlayerSamples ==
    { NoPlayer,
      Playing,
      [Playing EXCEPT !.duration = Unknown],
      [Playing EXCEPT !.is_stopped = TRUE],
      [Playing EXCEPT !.duration = 0] }

InitRead ==
    /\ em = NoEmitter
    /\ \E n \in 0..MaxLoaded :
        /\ entries = Deserialized(n)
        /\ meta \in [1..n -> NewAuthors]
        /\ duration \in [1..n -> Durations]
        /\ next_id = n + 1
    /\ dead = {}
    /\ round_robin_queue = FALSE
    /\ requested = {}
    /\ emitted = <<>>
    /\ pc = "idle"
    /\ cur = None
    /\ result = None
    /\ call = NoCall
    /\ op = NoOp
    /\ hist = NoHist
    /\ rr = RRIdle
    /\ bg = NoOverlap

NextRead ==
    \/ Peek
    \/ \E i \in Indices(entries) : GetEntryAtIndex(i)
    \/ \E u \in AuthorsOrNone : CountForUser(u)
    \/ \E a \in AuthorsOrNone : GetNextSongFromAuthor(a)
    \/ \E position \in 0..(Len(entries) + 2), player \in PlayerSamples :
          EstimateTimeUntil(position, player)

SpecRead == InitRead /\ [][NextRead]_vars

\* ------------------------------------------------ concurrent specification
\* the other operations and a second get_next_entry call run while a
\* get_next_entry call is suspended in its await; the entries have no author
Suspended ==
    /\ pc = "await"
    /\ call.interleaved_before + call.interleaved < MaxInterleaved

NextAsync ==
    \/ /\ Suspended
       /\ next_id <= MaxEntries
       /\ \E h \in BOOLEAN : AddEntryFromInfo(PlainMedia, None, h, FALSE)
    \/ /\ Suspended
       /\ next_id <= MaxEntries
       /\ \E i \in 0..Len(entries) : InsertEntryAtIndex(i, None)
    \/ /\ Suspended
       /\ \E i \in 0..(Len(entries) - 1) : DeleteEntryAtIndex(i)
    \/ Suspended /\ Shuffle
    \/ Suspended /\ Clear
    \/ \E p \in BOOLEAN : GetNextEntry(p)
    \/ FutureSucceeds
    \/ \E err \in AwaitErrors : FutureFails(err)
    \/ Suspended /\ \E p \in BOOLEAN : OverlapCall(p)
    \/ OverlapSucceeds
    \/ \E err \in AwaitErrors : OverlapFails(err)

SpecAsync == InitPlain /\ [][NextAsync]_vars

\* ================================================================ properties
Finished == rr.status \in {"done", "IndexError"}
Returned == rr.status = "done"
Before(q, x, y) == IndexOf(q, x) < IndexOf(q, y)
ByAuthor(q, a) == {e \in Range(q) : meta[e] = a}
CountFor(q, a) == Cardinality(ByAuthor(q, a))
Min(a, b) == IF a <= b THEN a ELSE b
AllAuthored(q) == \A e \in Range(q) : meta[e] # None
Failures(n, err) == [i \in 1..n |-> err]

\* a get_next_entry call has returned after k extraction failures and a success
SkippedThenOk(k) ==
    /\ pc = "done"
    /\ call.outcomes = Failures(k, "ExtractionError") \o <<"ok">>

FailedEvents(q, k) == [i \in 1..k |-> EntryFailed(q[i], "ExtractionError")]

\* ---------------------------------------------------------------------- C1
\* C1: with round-robin off, every add at the tail and no readiness failure,
\* the queue always holds the most recently created entries in creation
\* order, the entry being awaited is the one created just before them, and a
\* finished get_next_entry returned the head of the queue it was called on
\* (the empty result exactly when that queue was empty): entries come out in
\* the order they were added.
C1_FifoLaw ==
    (~round_robin_queue /\ hist.tail_only /\ ~hist.failures) =>
        /\ \A i \in 1..Len(entries) : entries[i] = next_id - Len(entries) + i - 1
        /\ pc = "await" => cur = next_id - Len(entries) - 1
        /\ pc = "done" => /\ result = peek(call.queue)
                          /\ entries = IF call.queue = <<>> THEN <<>>
                                       ELSE Tail(call.queue)

C1_Witness ==
    /\ ~round_robin_queue /\ hist.tail_only /\ ~hist.failures
    /\ hist.adds > 0
    /\ pc = "done" /\ result = 2 /\ entries = <<3>>

\* ---------------------------------------------------------------------- C2
\* C2 as stated: after k extraction failures followed by a success the call
\* returned the (k+1)-th entry and emitted exactly the k entry-failed events
\* of the failing entries.
C2_ExactlyKEvents ==
    \A k \in 0..MaxEntries :
        SkippedThenOk(k) =>
            /\ result = call.queue[k + 1]
            /\ emitted = FailedEvents(call.queue, k)

\* C2 amended: the call returned the (k+1)-th entry; the events are the k
\* entry-failed events of the failing entries, in order, followed by at most
\* one more: the AttributeError of the entry behind the returned one, raised
\* when its prefetch was requested and it has no live handle.
C2_SkipFailures ==
    \A k \in 0..MaxEntries :
        SkippedThenOk(k) =>
            /\ result = call.queue[k + 1]
            /\ entries = SubSeq(call.queue, k + 2, Len(call.queue))
            /\ \/ emitted = FailedEvents(call.queue, k)
               \/ /\ Len(call.queue) >= k + 2
                  /\ call.queue[k + 2] \in call.dead
                  /\ emitted = Append(FailedEvents(call.queue, k),
                                      EntryFailed(call.queue[k + 2], "AttributeError"))

C2_Witness ==
    /\ SkippedThenOk(2)
    /\ Len(emitted) = 2

\* ---------------------------------------------------------------------- C3
\* C3: a get_next_entry call in which no readiness succeeded has returned
\* None with the queue empty, after trying every entry it was called on; on
\* an empty queue it returned None with nothing emitted and nothing requested.
C3_ExhaustedReturnsNone ==
    (pc = "done" /\ \A i \in 1..Len(call.outcomes) : call.outcomes[i] # "ok") =>
        /\ result = None
        /\ entries = <<>>
        /\ Len(call.outcomes) = Len(call.queue)
        /\ call.queue = <<>> => (emitted = <<>> /\ requested = call.requested)

C3_Witness ==
    /\ pc = "done" /\ result = None
    /\ Len(call.queue) >= 2
    /\ "ExtractionError" \in Range(call.outcomes)
    /\ "AttributeError" \in Range(call.outcomes)

\* ---------------------------------------------------------------------- C4
HeadAdded == op.head /\ op.entry # None /\ op.raised = "none"

\* C4 as stated: after a head add E is the head and the entries queued before
\* follow it in their previous order, round-robin on or off.
C4_HeadKeepsOrder ==
    HeadAdded => entries = <<op.entry>> \o op.before

\* C4 amended: after a head add that returned, E is the head; with round-robin
\* off the earlier entries follow in their previous order, with round-robin on
\* the earlier entries of each author keep their order; and a get_next_entry
\* call made right after the add returns E when E's readiness succeeds.
C4_HeadIsNext ==
    /\ HeadAdded =>
        /\ peek(entries) = op.entry
        /\ ~round_robin_queue => Tail(entries) = op.before
        /\ round_robin_queue =>
              /\ Range(Tail(entries)) = Range(op.before)
              /\ \A x, y \in Range(op.before) :
                    (meta[x] = meta[y] /\ Before(op.before, x, y))
                        => Before(entries, x, y)
    /\ (pc = "done" /\ call.head_added # None /\ call.outcomes = <<"ok">>)
          => result = call.head_added

C4_Witness ==
    /\ pc = "done" /\ call.head_added # None /\ result = call.head_added
    /\ Len(call.queue) = 3
    /\ round_robin_queue

\* ---------------------------------------------------------------------- C5
\* C5: when reorder_for_round_robin has finished, any two queued entries of
\* the same author are in the order they had before the call, and a call that
\* returned kept every entry of every author.
C5_SameAuthorOrder ==
    Finished =>
        /\ \A x, y \in Range(entries) :
              (meta[x] = meta[y] /\ Before(rr.before, x, y)) => Before(entries, x, y)
        /\ Returned => \A a \in 0..NumRRAuthors :
              FilterSeq(entries, ByAuthor(entries, a))
                  = FilterSeq(rr.before, ByAuthor(rr.before, a))

C5_Witness ==
    /\ Returned
    /\ entries # rr.before
    /\ \E x, y \in Range(entries) : x # y /\ meta[x] = meta[y]

\* ---------------------------------------------------------------------- C6
Alternates(q, a, b) ==
    \A p \in 1..(2 * Min(CountFor(rr.before, a), CountFor(rr.before, b))) :
        /\ p <= Len(q)
        /\ meta[q[p]] \in {a, b}
        /\ p > 1 => meta[q[p]] # meta[q[p - 1]]

BothPresent(a, b) ==
    a # b /\ ByAuthor(rr.before, a) # {} /\ ByAuthor(rr.before, b) # {}

\* C6 as stated: the first 2 x min(count_A, count_B) positions of the queue
\* alternate between A and B, whatever other authors are queued.
C6_AlternateInQueue ==
    Returned =>
        \A a, b \in 1..NumRRAuthors : BothPresent(a, b) => Alternates(entries, a, b)

\* C6 amended: among the entries of A and B alone (the queue with the other
\* authors' entries left out) the first 2 x min(count_A, count_B) alternate.
C6_AlternateAmongPair ==
    Returned =>
        \A a, b \in 1..NumRRAuthors :
            BothPresent(a, b) =>
                Alternates(FilterSeq(entries, ByAuthor(entries, a) \cup ByAuthor(entries, b)),
                           a, b)

C6_Witness ==
    /\ Returned
    /\ \E a, b \in 1..NumRRAuthors :
          /\ CountFor(rr.before, a) = 2 /\ CountFor(rr.before, b) = 2
          /\ a # b
          /\ meta[rr.before[1]] = a /\ meta[rr.before[2]] = a

\* ---------------------------------------------------------------------- C7
\* authors in the order of their first entry in q
FirstAt(q, a) == CHOOSE i \in 1..Len(q) : meta[q[i]] = a /\ \A j \in 1..(i - 1) : meta[q[j]] # a
AuthorsOf(q) == {meta[e] : e \in Range(q)}
AuthorRank(q, a) == Cardinality({b \in AuthorsOf(q) : FirstAt(q, b) < FirstAt(q, a)}) + 1
AuthorAt(q, k) == CHOOSE a \in AuthorsOf(q) : AuthorRank(q, a) = k

\* the r-th entry of the k-th author, if there is one
Turn(q, r, k) ==
    LET own == FilterSeq(q, ByAuthor(q, AuthorAt(q, k)))
    IN  IF r <= Len(own) THEN <<own[r]>> ELSE <<>>

RECURSIVE RefRound(_, _, _)
RefRound(q, r, k) ==
    IF k > Cardinality(AuthorsOf(q)) THEN <<>>
    ELSE Turn(q, r, k) \o RefRound(q, r, k + 1)

RECURSIVE RefInterleave(_, _)
RefInterleave(q, r) ==
    IF r > Len(q) THEN <<>> ELSE RefRound(q, r, 1) \o RefInterleave(q, r + 1)

\* C7: on a queue whose entries all have an author the call returns, and the
\* queue it leaves is the reference interleaving: round r holds the r-th
\* entry of every author that has one, authors in order of first appearance.
C7_ReferenceInterleaving ==
    (Finished /\ AllAuthored(rr.before)) =>
        /\ Returned
        /\ entries = RefInterleave(rr.before, 1)

C7_Witness ==
    /\ Returned /\ AllAuthored(rr.before)
    /\ Len(rr.before) = 4
    /\ rr.dropped >= 1
    /\ entries # rr.before

\* ---------------------------------------------------------------------- C8
\* C8: on a queue that contains authorless entries the call completes without
\* error and keeps every entry.
C8_AuthorlessBucket ==
    (Finished /\ ~AllAuthored(rr.before)) =>
        /\ Returned
        /\ Range(entries) = Range(rr.before)

\* ---------------------------------------------------------------------- C9
\* C9: every evaluation of the loop moves one entry, removes one exhausted
\* author or leaves the loop, and the loop is left exactly when every entry
\* of the original queue has been moved.
C9_LoopProgress ==
    /\ rr.last \in {"none", "enter", "move", "drop", "exit"}
    /\ Finished <=> (rr.last = "exit" /\ Len(rr.new_queue) = Len(rr.before))

\* --------------------------------------------------------------------- C10
\* C10: a call that added an entry and returned has emitted exactly one
\* entry-added event, for that entry and with the caller's defer flag.
C10_OneAddedEvent ==
    (op.entry # None /\ op.raised = "none") =>
        emitted = <<EntryAdded(op.entry, op.defer)>>

C12_PrefetchBeforeAwait ==
    (pc = "await" /\ call.predownload /\ entries # <<>>) =>
        LET next_entry == peek(entries)
        IN  /\ cur # next_entry
            /\ \/ next_entry \in requested
               \/ /\ next_entry \in dead
                  /\ \E i \in 1..Len(emitted) :
                        emitted[i] = EntryFailed(next_entry, "AttributeError")

\* the call popped the head and asked for the future of the next entry, which
\* nobody had asked for before
C12_Witness ==
    /\ pc = "await" /\ call.predownload
    /\ Len(call.queue) >= 2
    /\ cur = Head(call.queue)
    /\ peek(entries) = call.queue[2]
    /\ peek(entries) \notin call.requested
    /\ peek(entries) \in requested

\* --------------------------------------------------------------------- C16
\* C16: delete_entry_at_index(i) with 0 <= i < len returns the entry that was
\* at position i and leaves the previous queue without exactly that slot, the
\* other entries in their previous order.
C16_DeleteRemovesSlot ==
    (op.name = "delete_entry_at_index" /\ op.index \in 0..(Len(op.before) - 1)) =>
        /\ op.raised = "none"
        /\ op.value = op.before[op.index + 1]
        /\ entries = RemoveAt(op.before, op.index + 1)

\* an inner slot of a three-entry queue was deleted
C16_Witness ==
    /\ op.name = "delete_entry_at_index"
    /\ Len(op.before) = 3
    /\ op.index = 1
    /\ op.value = op.before[2]
    /\ Len(entries) = 2

\* --------------------------------------------------------------------- C17
\* C17: after insert_entry_at_index(i, entry) with 0 <= i <= len the entry is
\* at position i, the entries that were at positions >= i follow it and the
\* entries before i are as they were.
C17_InsertAtIndex ==
    (op.name = "insert_entry_at_index" /\ op.index \in 0..Len(op.before)) =>
        /\ entries[op.index + 1] = op.entry
        /\ entries = SubSeq(op.before, 1, op.index) \o <<op.entry>>
                        \o SubSeq(op.before, op.index + 1, Len(op.before))

\* an entry was inserted between the two entries of a queue
C17_Witness ==
    /\ op.name = "insert_entry_at_index"
    /\ Len(op.before) = 2
    /\ op.index = 1
    /\ entries = <<op.before[1], op.entry, op.before[2]>>

\* --------------------------------------------------------------------- C18
\* C18: peek, get_entry_at_index(i) with 0 <= i < len, count_for_user,
\* get_next_song_from_author and estimate_time_until leave the queue as it was
\* and emit nothing; peek returns the head, or None on the empty queue, and
\* get_entry_at_index(i) returns the entry at position i.
ReadOps == {"peek", "get_entry_at_index", "count_for_user",
            "get_next_song_from_author", "estimate_time_until"}
InRange == op.index \in 0..(Len(op.before) - 1)

C18_ReadOnlyFrame ==
    /\ (op.name \in ReadOps /\ (op.name = "get_entry_at_index" => InRange)) =>
            entries = op.before /\ emitted = <<>>
    /\ op.name = "peek" =>
            op.value = (IF op.before = <<>> THEN None ELSE op.before[1])
    /\ (op.name = "get_entry_at_index" /\ InRange) =>
            op.raised = "none" /\ op.value = op.before[op.index + 1]

\* the second entry of a two-entry queue was read and the queue is as before
C18_Witness ==
    /\ op.name = "get_entry_at_index"
    /\ Len(op.before) = 2
    /\ op.index = 1
    /\ op.value = op.before[2]
    /\ entries = op.before

\* --------------------------------------------------------------------- C19
\* C19: the position returned by an add that returned is the 1-based position
\* the added entry occupies in the queue the add left.
C19_PositionIsActual ==
    (op.entry # None /\ op.raised = "none") =>
        op.position = IndexOf(entries, op.entry)

\* --------------------------------------------------------------------- C20
NothingPlaying == op.player.is_stopped \/ ~op.player.has_current
KnownUpTo(q, k) == \A i \in 1..k : i <= Len(q) => duration[q[i]] # Unknown

\* the durations of the first k entries of q, added up
RECURSIVE DurationsUpTo(_, _)
DurationsUpTo(q, k) ==
    IF k <= 0 THEN 0
    ELSE DurationsUpTo(q, k - 1) + (IF k <= Len(q) THEN duration[q[k]] ELSE 0)

\* the same with every duration counted as its seconds below one day
RECURSIVE DaySecondsUpTo(_, _)
DaySecondsUpTo(q, k) ==
    IF k <= 0 THEN 0
    ELSE DaySecondsUpTo(q, k - 1)
            + (IF k <= Len(q) THEN duration[q[k]] % SecondsPerDay ELSE 0)

FailedInCall ==
    {call.tried[i] : i \in {j \in 1..Len(call.outcomes) : call.outcomes[j] # "ok"}}

\* the result is the first entry, in the order the queue had when the call
\* was made, whose readiness did not fail (None when all of them failed)
FirstReadyOfCallQueue ==
    IF result = None
    THEN Range(call.queue) \subseteq FailedInCall
    ELSE /\ result \in Range(call.queue)
         /\ \A e \in Range(call.queue) :
                Before(call.queue, e, result) => e \in FailedInCall

\* C13 as stated: a finished get_next_entry has returned the first entry of
\* the queue of call time whose readiness succeeds, whatever ran beside it.
C13_FirstReadyInCallOrder ==
    pc = "done" => FirstReadyOfCallQueue

\* C13 amended: that holds when nothing ran while the call was suspended; in
\* every case the call returns the last entry it popped, the only one of the
\* popped entries whose readiness succeeded, or None after they all failed.
C13_UndisturbedCallOrder ==
    pc = "done" =>
        /\ call.interleaved = 0 => FirstReadyOfCallQueue
        /\ Len(call.tried) = Len(call.outcomes)
        /\ \A i \in 1..Len(call.outcomes) :
              call.outcomes[i] = "ok" =>
                  i = Len(call.outcomes) /\ result = call.tried[i]
        /\ result = None => FailedInCall = Range(call.tried)

\* an undisturbed call skipped the failed head and returned the second entry
C13_Witness ==
    /\ pc = "done"
    /\ call.interleaved = 0
    /\ Len(call.queue) >= 2
    /\ call.queue[1] \in FailedInCall
    /\ result = call.queue[2]

\* --------------------------------------------------------------------- C14
\* the entries that are current: popped by a get_next_entry call and neither
\* returned nor reported as failed yet
Current == call.inflight \cup bg.inflight

\* C14 as stated: at every instant at most one entry is current, also when
\* get_next_entry calls overlap.
C14_AtMostOneCurrent ==
    Cardinality(Current) <= 1

\* C14 amended: every get_next_entry call holds exactly the entry it is
\* awaiting while it is suspended and none otherwise, whatever runs beside it;
\* so at most one entry is current unless two calls are suspended at once.
C14_OneCurrentPerCall ==
    /\ call.inflight = (IF pc = "await" THEN {cur} ELSE {})
    /\ bg.inflight = (IF bg.pc = "await" THEN {bg.cur} ELSE {})
    /\ ~(pc = "await" /\ bg.pc = "await") => Cardinality(Current) <= 1

\* a second call came and returned an entry while the first call, after a
\* failure of its own, is suspended on the one entry it holds
C14_Witness ==
    /\ pc = "await"
    /\ call.interleaved >= 1
    /\ Len(call.tried) >= 2
    /\ bg.pc = "done" /\ bg.result # None
    /\ Current = {cur}

\* --------------------------------------------------------------------- C15
\* C15: when every awaited future is eventually settled and nothing is added
\* while a call runs, every suspended get_next_entry call eventually returns,
\* and a call attempts each entry that was queued at most once.
C15_CallReturns ==
    /\ [](/\ Len(call.tried) <= Len(call.queue)
          /\ \A i, j \in 1..Len(call.tried) :
                call.tried[i] = call.tried[j] => i = j)
    /\ (pc = "await") ~> (pc = "done")

\* a call returned after one attempt on each of the two queued entries, the
\* first of which failed while it was awaited
C15_Witness ==
    /\ pc = "done"
    /\ Len(call.queue) = 2
    /\ call.tried = call.queue
    /\ call.outcomes[1] = "ExtractionError"

\* --------------------------------------------------------------------- C21
\* C21: with nothing playing, estimate_time_until(0, player) on a non-empty
\* queue returns zero and does not raise.
C21_ZeroAtPositionZero ==
    (/\ op.name = "estimate_time_until"
     /\ NothingPlaying
     /\ op.index = 0
     /\ op.before # <<>>) =>
        op.raised = "none" /\ op.value = 0

\* --------------------------------------------------------------------- C22
UnknownUpTo(q, k) == \E i \in 1..k : i <= Len(q) /\ duration[q[i]] = Unknown

\* C22 as stated: the estimate raises InvalidDataError whenever an entry at a
\* 0-indexed position strictly before position (one of the first `position`
\* entries) has an unknown duration.
C22_UnknownBeforePosition ==
    (op.name = "estimate_time_until" /\ UnknownUpTo(op.before, op.index)) =>
        op.raised = "InvalidDataError"

\* C22 amended: for position >= 1 the estimate raises InvalidDataError
\* whenever one of the first position-1 entries has an unknown duration, and
\* with nothing playing it raises only then.
C22_UnknownAmongFirstPositionMinusOne ==
    (op.name = "estimate_time_until" /\ op.index >= 1) =>
        /\ UnknownUpTo(op.before, op.index - 1) => op.raised = "InvalidDataError"
        /\ NothingPlaying =>
              (op.raised = "InvalidDataError"
                  <=> UnknownUpTo(op.before, op.index - 1))

\* position 2 on a queue whose head has no duration: the estimate is refused
C22_Witness ==
    /\ op.name = "estimate_time_until"
    /\ op.index = 2
    /\ Len(op.before) = 2
    /\ duration[op.before[1]] = Unknown
    /\ op.raised = "InvalidDataError"

\* --------------------------------------------------------------------- C23
\* C23: when the queued part of the estimate is computed, a player that is
\* not stopped and has a current entry adds current duration - progress to
\* it, a current duration of 0 included, or makes the call raise
\* InvalidDataError when that duration is unknown; a player that is stopped
\* or has no current entry adds nothing.
C23_RemainderOfCurrent ==
    (/\ op.name = "estimate_time_until"
     /\ op.index >= 1
     /\ KnownUpTo(op.before, op.index - 1)) =>
        IF NothingPlaying
        THEN /\ op.raised = "none"
             /\ op.value = DaySecondsUpTo(op.before, op.index - 1)
        ELSE IF op.player.duration = Unknown
        THEN op.raised = "InvalidDataError"
        ELSE /\ op.raised = "none"
             /\ op.value = DaySecondsUpTo(op.before, op.index - 1)
                              + op.player.duration - op.player.progress

\* a player three seconds into an entry of duration 0, one entry of seven
\* seconds counted from the queue: the estimate is 7 + 0 - 3
C23_Witness ==
    /\ op.name = "estimate_time_until"
    /\ ~NothingPlaying
    /\ op.player.duration = 0 /\ op.player.progress = 3
    /\ op.index = 2
    /\ Len(op.before) = 2
    /\ duration[op.before[1]] = 7
    /\ op.raised = "none"
    /\ op.value = 4

\* --------------------------------------------------------------------- C24
\* C24: the playlist decoded from the encoded form of a queue holds the
\* entries the queue had when it was encoded, as many and in the same order.
C24_RoundTrip ==
    (op.name = "deserialize" /\ op.raised = "none") => entries = op.before

\* a queue of two entries that is not in creation order came back as it was
C24_Witness ==
    /\ op.name = "deserialize" /\ op.raised = "none"
    /\ Len(op.before) = 2
    /\ op.before[1] > op.before[2]
    /\ entries = op.before

\* --------------------------------------------------------------------- C25
\* the entry-failed events of the log
FailedLogged == {emitted[i] : i \in {j \in 1..Len(emitted) :
                                      emitted[j].name = "entry-failed"}}
InCall == pc \in {"await", "done"}

\* a decoded playlist has requested no future and emitted no event
DecodedQuietly ==
    (op.name = "deserialize" /\ op.raised = "none") =>
        requested = {} /\ emitted = <<>>

\* every entry without a live handle that a call popped was reported as
\* entry-failed by that call and was not returned
PoppedDeadSkipped ==
    InCall =>
        \A i \in 1..Len(call.tried) :
            call.tried[i] \in call.dead =>
                /\ EntryFailed(call.tried[i], "AttributeError") \in FailedLogged
                /\ call.outcomes[i] = "AttributeError"
                /\ result # call.tried[i]
                /\ cur # call.tried[i]

\* C25 as stated: decoding requests and emits nothing, and an entry without
\* its live handle is reported only by the get_next_entry call that pops it,
\* which emits entry-failed for it and goes on to the next entry.
C25_ReportedOnlyWhenPopped ==
    /\ DecodedQuietly
    /\ PoppedDeadSkipped
    /\ InCall => \A ev \in FailedLogged : ev.entry \in Range(call.tried)

\* C25 amended: the report comes from the call that pops the entry or, when
\* the entry has become the head after a pop, from the prefetch of the call
\* that made that pop, which leaves the entry in the queue.
C25_ReportedWhenPoppedOrPrefetched ==
    /\ DecodedQuietly
    /\ PoppedDeadSkipped
    /\ InCall => \A ev \in FailedLogged :
            \/ ev.entry \in Range(call.tried)
            \/ ev.entry = peek(entries) /\ ev.entry \in call.dead

\* after a decoding that lost the handle of the head, a call popped the head,
\* reported it and is awaiting the second entry
C25_Witness ==
    /\ pc = "await"
    /\ Len(call.queue) >= 2
    /\ call.queue[1] \in call.dead
    /\ call.tried = <<call.queue[1], call.queue[2]>>
    /\ cur = call.queue[2]
    /\ EntryFailed(call.queue[1], "AttributeError") \in FailedLogged
    /\ hist.failures

\* ------------------------------------------------------------------ C29
\* a content type that lines 152-153 refuse: it starts with application/ or
\* image/ and names neither /ogg nor /octet-stream
InvalidContentType(info) ==
    /\ info.extractor \in {"generic", "Dropbox"}
    /\ info.content_type \in {"application/zip", "image/png"}

RefusedAdd ==
    /\ op.name = "add_entry_from_info"
    /\ op.raised \in {"ExtractionError", "WrongEntryTypeError"}

\* C29: add_entry_from_info raises ExtractionError for empty info and for a
\* rejected content type, and WrongEntryTypeError for info that is a playlist;
\* after any of these the queue is the one before the call, no entry-added
\* was emitted and no readiness future was requested.
C29_RefusedAddChangesNothing ==
    /\ op.name = "add_entry_from_info" =>
         /\ op.info.empty => op.raised = "ExtractionError"
         /\ ~op.info.empty /\ op.info.ytdl_type = "playlist"
               => op.raised = "WrongEntryTypeError"
         /\ /\ ~op.info.empty
            /\ op.info.ytdl_type # "playlist"
            /\ ~op.info.is_stream
            /\ InvalidContentType(op.info)
            => op.raised = "ExtractionError"
    /\ RefusedAdd =>
         /\ entries = op.before
         /\ emitted = <<>>
         /\ requested = op.requested
         /\ op.entry = None

\* a refused content type on a playlist that holds entries
C29_Witness ==
    /\ RefusedAdd
    /\ ~op.info.empty
    /\ InvalidContentType(op.info)
    /\ entries # <<>>
    /\ op.before = entries

\* ------------------------------------------------------------------ C26
\* an emit has returned: one made on its own, or the one inside _add_entry
EmitReturned ==
    \/ op.name = "emit"
    \/ op.name = "_add_entry" /\ op.raised = "none"

TraceCallbacks == [i \in 1..Len(em.trace) |-> em.trace[i].cb]

\* C26: emit(event) calls the handlers that were registered for that event
\* name when it was called, once per registration and in registration order,
\* each with the payload; no handler of another name is called, and an emit
\* for a name without handlers does nothing.
C26_InvokesRegisteredInOrder ==
    EmitReturned =>
        /\ TraceCallbacks = em.last.registered
        /\ \A i \in 1..Len(em.trace) :
              /\ em.trace[i].event = em.last.event
              /\ em.trace[i].payload.entry = em.last.entry
        /\ ~em.last.present =>
              /\ em.trace = <<>>
              /\ em.ran = <<>>
              /\ em.printed = 0

\* an emit for a name with two different handlers while the other name has
\* none, both called in the order of their registration
C26_Witness ==
    /\ op.name = "emit"
    /\ Len(em.last.registered) = 2
    /\ em.last.registered[1] # em.last.registered[2]
    /\ TraceCallbacks = em.last.registered

\* ------------------------------------------------------------------ C27
\* emit was called: on its own, or by an _add_entry that got as far as line 312
EmitCalled ==
    \/ op.name = "emit"
    \/ op.name = "_add_entry" /\ op.raised # "IndexError"

IsPlain(cb) == ~iscoroutinefunction(cb)
RaisingAt == {i \in 1..Len(em.last.registered) :
                 HandlerKind(em.last.registered[i]) = "raises"}

\* C27: a handler that raises does not keep the handlers registered after it
\* from being called in the same emit, and nothing is raised to the caller of
\* emit: the error is printed, and an _add_entry with a failing subscriber
\* still returns with the entry queued and the head's future requested.
C27_RaisingHandlerIsContained ==
    EmitCalled =>
        /\ em.raised = "none"
        /\ op.raised = "none"
        /\ em.printed = Cardinality(RaisingAt)
        /\ \A i \in RaisingAt : \A j \in (i + 1)..Len(em.last.registered) :
              /\ j <= Len(em.trace)
              /\ em.trace[j].cb = em.last.registered[j]
        /\ em.ran = SelectSeq(em.last.registered, IsPlain)
        /\ op.name = "_add_entry" =>
              /\ op.entry \in Range(entries)
              /\ requested = RequestIfHead(entries, op.requested, op.entry)

\* an add at the head whose first subscriber raised: the second one ran, the
\* add returned and asked for the new head's future
C27_Witness ==
    /\ op.name = "_add_entry"
    /\ op.raised = "none"
    /\ Len(em.last.registered) = 2
    /\ HandlerKind(em.last.registered[1]) = "raises"
    /\ HandlerKind(em.last.registered[2]) = "sync"
    /\ em.ran = em.last.registered
    /\ em.printed = 1
    /\ peek(entries) = op.entry
    /\ op.entry \in requested
    /\ op.before # <<>>

\* ------------------------------------------------------------------ C28
AsyncAt == {i \in 1..Len(em.last.registered) :
               iscoroutinefunction(em.last.registered[i])}

\* the tasks the emit handed to the loop: the tail of the pending tasks
HandedOver ==
    SubSeq(em.scheduled, Len(em.scheduled) - Cardinality(AsyncAt) + 1,
           Len(em.scheduled))

\* C28: emit does not wait for an asynchronous handler: when emit returns, the
\* coroutine of each asynchronous handler is pending on the event loop and its
\* body has not run, while every synchronous handler, those registered after
\* an asynchronous one included, has run inside the emit.
C28_AsyncOnlyScheduled ==
    EmitCalled =>
        /\ \A cb \in Range(em.ran) : ~iscoroutinefunction(cb)
        /\ Cardinality(AsyncAt) <= Len(em.scheduled)
        /\ [i \in 1..Len(HandedOver) |-> HandedOver[i].cb]
              = SelectSeq(em.last.registered, iscoroutinefunction)
        /\ \A i \in 1..Len(HandedOver) :
              /\ HandedOver[i].event = em.last.event
              /\ HandedOver[i].entry = em.last.entry
        /\ \A i \in AsyncAt : \A j \in (i + 1)..Len(em.last.registered) :
              IsPlain(em.last.registered[j]) =>
                 em.last.registered[j] \in Range(em.ran)

\* an emit to an asynchronous handler followed by a synchronous one: the
\* second ran inline, the first is pending and has not run
C28_Witness ==
    /\ op.name = "emit"
    /\ Len(em.last.registered) = 2
    /\ HandlerKind(em.last.registered[1]) = "async"
    /\ HandlerKind(em.last.registered[2]) = "sync"
    /\ em.ran = <<em.last.registered[2]>>
    /\ em.scheduled # <<>>
    /\ em.scheduled[Len(em.scheduled)].cb = em.last.registered[1]

\* ------------------------------------------------------------------ C30
\* an add that reached the emit of line 312 with subscribers to call
AddEmitted ==
    /\ op.name = "_add_entry"
    /\ op.raised = "none"
    /\ em.trace # <<>>

C36_ReorderIdempotent ==
    Finished =>
        /\ reorder_for_round_robin(entries, meta).entries = entries
        /\ reorder_for_round_robin(entries, meta).status = rr.status

\* a call that rearranged three or more entries of several authors and
\* dropped an exhausted author on the way
C36_Witness ==
    /\ Returned
    /\ Len(entries) >= 3
    /\ entries # rr.before
    /\ rr.dropped >= 1
    /\ \E x, y \in Range(entries) : meta[x] # meta[y]
    /\ reorder_for_round_robin(entries, meta).entries = entries

\* ------------------------------------------------------------------ C37
\* C37: on a non-empty queue whose entries all have authors the call leaves
\* the head where it was: the entry that was first is first afterwards.
C37_HeadStaysHead ==
    (Finished /\ AllAuthored(rr.before) /\ rr.before # <<>>) =>
        /\ Returned
        /\ peek(entries) = peek(rr.before)

\* a call that moved entries behind the head of an all-authored queue
C37_Witness ==
    /\ Returned
    /\ AllAuthored(rr.before)
    /\ entries # rr.before
    /\ peek(entries) = peek(rr.before)
    /\ peek(entries) # None

\* ------------------------------------------------------------------ C35
\* the futures a call has requested for entries that are still queued
RequestedInQueue == (requested \cap Range(entries)) \ call.requested

\* C35: a get_next_entry call made with predownload_next false requests the
\* readiness future of no entry that is still in the queue, also when the
\* popped entry fails and the call moves on to the following entries.
C35_NoPrefetchWhenOff ==
    (InCall /\ ~call.predownload) => RequestedInQueue = {}

\* ------------------------------------------------------------------ C34
\* C34: on a playlist that has only been added to and popped with prefetching
\* on, a non-empty queue always has a head whose readiness future has been
\* requested.
C34_HeadAlwaysRequested ==
    entries # <<>> => peek(entries) \in requested

\* ------------------------------------------------------------------ C33
\* the queue holds each of its entries in one slot
NoDuplicates(q) == Len(q) = Cardinality(Range(q))

\* an entry a call popped is being awaited, was returned, or was reported
Accounted(e) ==
    \/ e = cur
    \/ e = result
    \/ \E i \in 1..Len(emitted) :
          emitted[i].name = "entry-failed" /\ emitted[i].entry = e

\* C33: no operation loses or duplicates an entry.  After an add the queue
\* holds, once each, the entries it held before and the added one; the
\* entries a get_next_entry call took from the queue it found are the ones it
\* awaits, returned or reported as failed, and the rest is still queued.
C33_NoLossNoDuplicate ==
    /\ NoDuplicates(entries)
    /\ op.name \in {"add_entry_from_info", "add_stream_from_info"} =>
          Range(entries) = Range(op.before)
                             \cup (IF op.entry = None THEN {} ELSE {op.entry})
    /\ InCall =>
          /\ call.queue = call.tried \o entries
          /\ \A e \in Range(call.tried) : Accounted(e)

\* ------------------------------------------------------------ import_from_info
ImportReturned == op.name = "import_from_info" /\ op.raised = "none"

\* C31: an import that returns and has added at least one entry has emitted
\* entry-added once per added entry, deferred for all but the last of them and
\* not deferred for the last one
C31_LastAddedNotDeferred ==
    (ImportReturned /\ op.entry_list # <<>>) =>
        /\ Len(emitted) = Len(op.entry_list)
        /\ \A k \in 1..Len(emitted) :
              /\ emitted[k].name = "entry-added"
              /\ emitted[k].defer = (k < Len(emitted))

\* the entries the import made, in the order of the extracted list
ImportedBlock == SelectSeq(op.made, LAMBDA e : e # None)

\* C32: with round-robin off the accepted items are queued as one block in
\* the order of the extracted list, behind the old queue for a tail import and
\* in front of it for a head import; the returned list is that block and the
\* returned position is where its first entry stands
C32_ImportedBlockInOrder ==
    (ImportReturned /\ ~round_robin_queue) =>
        /\ entries = IF op.head THEN ImportedBlock \o op.before
                                ELSE op.before \o ImportedBlock
        /\ op.entry_list = ImportedBlock
        /\ ImportedBlock # <<>> => entries[op.position] = ImportedBlock[1]

\* a head import onto a loaded queue that accepts the first and the last item
\* of the list and leaves out the one between them
C32_Witness ==
    /\ ImportReturned /\ ~round_robin_queue /\ op.head
    /\ op.before # <<>>
    /\ Len(op.items) = 3
    /\ op.made[1] # None /\ op.made[2] = None /\ op.made[3] # None

\* ------------------------------------------------------------ once, off, on
\* C38: over all the emits made so far the handlers given to once() have run
\* at most once per once() call, and a wrapper whose handler has run is no
\* longer registered
C38_OnceAtMostOnce ==
    /\ em.once_runs <= em.onces
    /\ Count(em.events[RegEvent], OnceWrapper) = em.onces - em.once_runs

\* an emit whose loop called the wrapper twice: a handler before it emitted
\* the event again, the inner emit ran the handler, and the outer loop's call
\* of the wrapper ended in off() raising
C38_Witness ==
    /\ op.name = "emit"
    /\ em.onces = 1 /\ em.once_runs = 1
    /\ Count(TraceCallbacks, OnceWrapper) = 2
    /\ em.printed = 1
    /\ OnceWrapper \notin Range(em.events[RegEvent])

\* what the last call on the emitter was
OffCalled == op.name = "off"
OffOfRegistered == OffCalled /\ op.value \in Range(op.before)
OffAfterOn == OffCalled /\ op.prev.name = "on" /\ op.prev.cb = op.value
PlainEmit == op.name = "emit" /\ \A cb \in Range(em.last.registered) :
                                    HandlerKind(cb) # "emits"

\* the parts of C39 that do not depend on what was registered before
OffTakesEarliest ==
    /\ OffOfRegistered =>
          /\ em.raised = "none"
          /\ em.events[RegEvent] = RemoveAt(op.before, IndexOf(op.before, op.value))
    /\ (OffCalled /\ ~OffOfRegistered) =>
          /\ em.raised = "ValueError"
          /\ em.events[RegEvent] = op.before
    /\ PlainEmit =>
          \A cb \in Range(em.last.registered) :
              Count(TraceCallbacks, cb) = Count(em.last.registered, cb)

\* C39 as stated: off takes out the earliest registration of the handler and
\* nothing else, raises for a handler that is not registered, an emit calls a
\* handler once per registration, and on followed by off of the same handler
\* leaves the registrations as they were before the on
C39_OffUndoesOn ==
    /\ OffTakesEarliest
    /\ OffAfterOn => em.events[RegEvent] = op.prev.before

\* C39 amended: on followed by off of the same handler leaves the
\* registrations as they were only when the handler was not registered
\* before the on; when it was, its earliest registration is gone and the new
\* one stands at the end of the list
C39_OffRemovesEarliest ==
    /\ OffTakesEarliest
    /\ OffAfterOn =>
          /\ op.value \notin Range(op.prev.before) =>
                em.events[RegEvent] = op.prev.before
          /\ \A cb \in Range(op.prev.before) :
                Count(em.events[RegEvent], cb) = Count(op.prev.before, cb)
          /\ op.value \in Range(op.prev.before) =>
                em.events[RegEvent] =
                    Append(RemoveAt(op.prev.before,
                                    IndexOf(op.prev.before, op.value)), op.value)

\* on followed by off of a handler that was registered ahead of another one:
\* the handler has moved behind it
C39_Witness ==
    /\ OffAfterOn
    /\ op.value \in Range(op.prev.before)
    /\ em.events[RegEvent] # op.prev.before

Unsubscriber == CHOOSE cb \in Listeners : HandlerKind(cb) = "unsubscribes"
Subscriber   == CHOOSE cb \in Listeners : HandlerKind(cb) = "subscribes"

\* C40: an emit calls the handlers that were registered when it started, in
\* that order, whatever its handlers register or unregister meanwhile: what
\* they changed is in the list the next emit starts from
C40_EmitUsesSnapshot ==
    PlainEmit =>
        /\ em.last.registered = op.before
        /\ TraceCallbacks = op.before

\* the second of two emits in a row. The first found an unsubscriber, the
\* plain handler and a subscriber: it called the plain handler after its
\* removal and left the one added at the end uncalled. The second started
\* from the list the first left and called the plain handler there
C40_Witness ==
    /\ PlainEmit
    /\ op.prev.name = "emit"
    /\ op.prev.before = <<Unsubscriber, PlainHandler, Subscriber>>
    /\ op.before = <<Unsubscriber, Subscriber, PlainHandler>>
    /\ TraceCallbacks = op.before

====
